---- MODULE Spec2Model ----
(***************************************************************************)
(* Library-Service: the mutation engine (validate -> write -> commit ->    *)
(* journal, with rollback), the path-containment validator and the tenant  *)
(* scoping, modelled from src/app.                                         *)
(*                                                                         *)
(* Representation.  A raw caller string is a sequence of one-character     *)
(* strings.  A path on disk is a sequence of segment names (strings).      *)
(* File content is a sequence of bytes; text is a sequence of characters.  *)
(* A commit id is a positive number; NoSha (0) is Python's None.           *)
(***************************************************************************)
EXTENDS Integers, Sequences, FiniteSets, TLC

VARIABLES
    fs,       \* regular files on disk: path -> bytes
    dirs,     \* directories on disk: set of paths
    links,    \* symbolic links on disk: set of paths
    git,      \* per tenant: the embedded commit store under <root>/.git
    journal,  \* per tenant: the lines of <root>/activity.log
    req,      \* the tool call in progress and its local variables
    call      \* the last application of a pure function: input and output

vars == <<fs, dirs, links, git, journal, req, call>>

(***************************************************************************)
(* Bounds                                                                  *)
(***************************************************************************)
MaxCalls == 3        \* tool calls in one behaviour
MaxLen == 5          \* longest file content a call may produce
MaxRawLen == 4       \* longest raw path string given to validate_path
MaxIndex == 2        \* entries a transcripts index may hold before ingestion stops
MaxClock == 2        \* seconds the wall clock may move on in one behaviour

(***************************************************************************)
(* Characters and strings                                                  *)
(***************************************************************************)
CR == "\r"
LF == "\n"
NoSha == 0

RECURSIVE Concat(_)
\* "".join(chars)
Concat(s) == IF s = <<>> THEN "" ELSE Head(s) \o Concat(Tail(s))

Last(s) == s[Len(s)]
Front(s) == SubSeq(s, 1, Len(s) - 1)

RECURSIVE ReplaceChar(_, _, _)
\* str.replace(old, new) for single characters
ReplaceChar(s, old, new) ==
    IF s = <<>> THEN <<>>
    ELSE <<IF Head(s) = old THEN new ELSE Head(s)>> \o ReplaceChar(Tail(s), old, new)

RECURSIVE SplitOn(_, _)
\* str.split(sep): the pieces between separators, empty pieces included
SplitOn(s, sep) ==
    IF \A i \in 1..Len(s) : s[i] # sep THEN <<s>>
    ELSE LET i == CHOOSE k \in 1..Len(s) :
                      s[k] = sep /\ \A j \in 1..(k - 1) : s[j] # sep
         IN <<SubSeq(s, 1, i - 1)>> \o SplitOn(SubSeq(s, i + 1, Len(s)), sep)

RECURSIVE SelectParts(_)
SelectParts(pieces) ==
    IF pieces = <<>> THEN <<>>
    ELSE IF Head(pieces) = <<>> \/ Head(pieces) = <<".">>
         THEN SelectParts(Tail(pieces))
         ELSE <<Head(pieces)>> \o SelectParts(Tail(pieces))

\* PurePosixPath(s).is_absolute()
IsAbsolute(s) == s # <<>> /\ s[1] = "/"

\* PurePosixPath(s).parts of a relative path, each part still a sequence of
\* characters: empty and "." pieces are dropped
PartsChars(s) == SelectParts(SplitOn(s, "/"))

\* PurePosixPath(s).parts of a relative path, as names
Parts(s) == [i \in 1..Len(PartsChars(s)) |-> Concat(PartsChars(s)[i])]

IsPrefix(p, q) == Len(p) <= Len(q) /\ SubSeq(q, 1, Len(p)) = p

(***************************************************************************)
(* Tenants                                                                 *)
(***************************************************************************)
Tenants == {"ann", "bob"}

\* resolve_user_library_root: <base>/users/<normalized id>
resolve_user_library_root(t) == <<"users", t>>

(***************************************************************************)
(* Path validator (src/app/paths.py)                                       *)
(***************************************************************************)
Ok(v) == [ok |-> TRUE, value |-> v, code |-> "OK"]
Err(c) == [ok |-> FALSE, value |-> <<>>, code |-> c]

\* a caller-supplied JSON value: a string, a value of another type, or a
\* field that is absent from the payload
Str(s) == [kind |-> "str", s |-> s]
NonStr == [kind |-> "other", s |-> <<>>]
Missing == [kind |-> "missing", s |-> <<>>]

_contains_symlink_last_only(library_root, parts, lnk) ==
    parts # <<>> /\ (library_root \o parts) \in lnk

_contains_symlink(library_root, parts, lnk) ==
    \E n \in 1..Len(parts) : (library_root \o SubSeq(parts, 1, n)) \in lnk

validate_path_symlink_first(library_root, raw_path, lnk) ==
    IF raw_path.kind # "str" THEN Err("INVALID_TYPE")
    ELSE LET normalized == ReplaceChar(raw_path.s, "\\", "/")
             parts == Parts(normalized)
         IN IF IsAbsolute(normalized) THEN Err("ABSOLUTE_PATH")
            ELSE IF _contains_symlink(library_root, parts, lnk) THEN Err("PATH_SYMLINK")
            ELSE IF \E i \in 1..Len(parts) : parts[i] = ".." THEN Err("PATH_TRAVERSAL")
            ELSE Ok(library_root \o parts)

validate_path(library_root, raw_path, lnk) ==
    IF raw_path.kind # "str" THEN Err("INVALID_TYPE")
    ELSE LET normalized == ReplaceChar(raw_path.s, "\\", "/")
             parts == Parts(normalized)
         IN IF IsAbsolute(normalized) THEN Err("ABSOLUTE_PATH")
            ELSE IF \E i \in 1..Len(parts) : parts[i] = ".." THEN Err("PATH_TRAVERSAL")
            ELSE IF _contains_symlink(library_root, parts, lnk) THEN Err("PATH_SYMLINK")
            ELSE Ok(library_root \o parts)

(***************************************************************************)
(* Text and bytes (Path.read_text, _atomic_write, src/app/mcp_utils.py)    *)
(***************************************************************************)
RECURSIVE Decode(_)
\* Path.read_text(encoding="utf-8"): text mode with universal newlines, so
\* "\r\n" and a lone "\r" both arrive as "\n"
Decode(bytes) ==
    IF bytes = <<>> THEN <<>>
    ELSE IF Head(bytes) = CR
         THEN IF Len(bytes) >= 2 /\ bytes[2] = LF
              THEN <<LF>> \o Decode(SubSeq(bytes, 3, Len(bytes)))
              ELSE <<LF>> \o Decode(Tail(bytes))
         ELSE <<Head(bytes)>> \o Decode(Tail(bytes))

\* os.linesep of the platform the service runs on (POSIX)
LineSep == <<LF>>

RECURSIVE Encode(_)
\* what a text-mode file opened with "w" writes: "\n" becomes os.linesep,
\* every other character is written as it is
Encode(text) ==
    IF text = <<>> THEN <<>>
    ELSE (IF Head(text) = LF THEN LineSep ELSE <<Head(text)>>) \o Encode(Tail(text))

_join_with_newline(left, right) ==
    IF left = <<>> \/ right = <<>> THEN left \o right
    ELSE IF Last(left) = LF \/ Head(right) = LF THEN left \o right
    ELSE left \o <<LF>> \o right

Whitespace == {CR, LF, " "}

RECURSIVE LStripSet(_, _)
\* str.lstrip(chars)
LStripSet(s, cs) ==
    IF s # <<>> /\ Head(s) \in cs THEN LStripSet(Tail(s), cs) ELSE s

RECURSIVE RStripSet(_, _)
\* str.rstrip(chars)
RStripSet(s, cs) ==
    IF s # <<>> /\ Last(s) \in cs THEN RStripSet(Front(s), cs) ELSE s

\* str.strip()
Strip(s) == RStripSet(LStripSet(s, Whitespace), Whitespace)

RECURSIVE SplitLines(_)
\* str.splitlines(keepends=True): a line ends at "\r\n", "\n" or "\r"
SplitLines(s) ==
    IF s = <<>> THEN <<>>
    ELSE IF \A i \in 1..Len(s) : s[i] \notin {CR, LF} THEN <<s>>
    ELSE LET i == CHOOSE k \in 1..Len(s) :
                      s[k] \in {CR, LF} /\ \A j \in 1..(k - 1) : s[j] \notin {CR, LF}
             e == IF s[i] = CR /\ i < Len(s) /\ s[i + 1] = LF THEN i + 1 ELSE i
         IN <<SubSeq(s, 1, e)>> \o SplitLines(SubSeq(s, e + 1, Len(s)))

RECURSIVE Flatten(_)
\* "".join(lines)
Flatten(lines) == IF lines = <<>> THEN <<>> ELSE Head(lines) \o Flatten(Tail(lines))

(***************************************************************************)
(* Markdown section editor (src/app/mcp_operations.py)                     *)
(***************************************************************************)
SECTION_OPERATIONS == {"replace_section", "insert_before", "insert_after"}
WRITE_OPERATIONS == {"append", "prepend"}

\* _heading_level: 0 stands for None
_heading_level(line) ==
    LET stripped == LStripSet(line, Whitespace)
    IN IF stripped = <<>> \/ Head(stripped) # "#" THEN 0
       ELSE Len(stripped) - Len(LStripSet(stripped, {"#"}))

\* the end of the section that starts at line index (1-based): the index of
\* the next heading of the same or a higher rank, or one past the last line
SectionEnd(lines, index, level) ==
    LET nexts == {n \in (index + 1)..Len(lines) :
                      /\ _heading_level(RStripSet(lines[n], {CR, LF})) # 0
                      /\ _heading_level(RStripSet(lines[n], {CR, LF})) <= level}
    IN IF nexts = {} THEN Len(lines) + 1
       ELSE CHOOSE n \in nexts : \A m \in nexts : n <= m

_find_section_bounds_last(lines, target) ==
    LET target_line == Strip(target)
        hits == {i \in 1..Len(lines) : Strip(lines[i]) = target_line}
    IN IF target_line = <<>> THEN Err("INVALID_TARGET")
       ELSE IF _heading_level(target_line) = 0 THEN Err("INVALID_TARGET")
       ELSE IF hits = {} THEN Err("SECTION_NOT_FOUND")
       ELSE LET index == CHOOSE i \in hits : \A j \in hits : i >= j
            IN Ok(<<index, SectionEnd(lines, index, _heading_level(Strip(lines[index])))>>)

\* _find_section_bounds: [start, end) as 1-based line numbers, or an error
_find_section_bounds(lines, target) ==
    LET target_line == Strip(target)
        hits == {i \in 1..Len(lines) : Strip(lines[i]) = target_line}
    IN IF target_line = <<>> THEN Err("INVALID_TARGET")
       ELSE IF _heading_level(target_line) = 0 THEN Err("INVALID_TARGET")
       ELSE IF hits = {} THEN Err("SECTION_NOT_FOUND")
       ELSE LET index == CHOOSE i \in hits : \A j \in hits : i <= j
            IN Ok(<<index, SectionEnd(lines, index, _heading_level(Strip(lines[index])))>>)

_apply_section_operation(content, op_type, target, op_content) ==
    LET lines == SplitLines(content)
        bounds == _find_section_bounds(lines, target)
        start == bounds.value[1]
        end == bounds.value[2]
        before(n) == SubSeq(lines, 1, n - 1)
        from(n) == SubSeq(lines, n, Len(lines))
        ins == SplitLines(op_content)
    IN IF ~bounds.ok THEN bounds
       ELSE IF op_type = "replace_section" THEN Ok(Flatten(before(start) \o ins \o from(end)))
       ELSE IF op_type = "insert_before" THEN Ok(Flatten(before(start) \o ins \o from(start)))
       ELSE Ok(Flatten(before(end) \o ins \o from(end)))

\* an operation object {type, content, target}; target.some = FALSE is an
\* absent (None) target
Op(type, content) ==
    [kind |-> "dict", type |-> type, content |-> content,
     target |-> [some |-> FALSE, s |-> <<>>]]
OpAt(type, content, target) ==
    [kind |-> "dict", type |-> type, content |-> content,
     target |-> [some |-> TRUE, s |-> target]]
MissingOp == [Op("", <<>>) EXCEPT !.kind = "missing"]

_apply_write_operation(content, operation) ==
    IF operation.type \notin WRITE_OPERATIONS THEN Err("INVALID_OPERATION")
    ELSE IF operation.type = "append" THEN Ok(_join_with_newline(content, operation.content))
    ELSE Ok(_join_with_newline(operation.content, content))

_apply_edit_operation(content, operation) ==
    IF operation.type \notin SECTION_OPERATIONS THEN Err("INVALID_OPERATION")
    ELSE IF ~operation.target.some \/ operation.target.s = <<>> THEN Err("MISSING_TARGET")
    ELSE _apply_section_operation(content, operation.type, operation.target.s, operation.content)

(***************************************************************************)
(* Disk                                                                    *)
(***************************************************************************)
EmptyFs == [p \in {} |-> <<>>]

ACTIVITY_LOG_FILENAME == "activity.log"

\* _activity_log_path: the journal is a file at the tenant root
_activity_log_path(library_root) == library_root \o <<ACTIVITY_LOG_FILENAME>>

\* the journal files on disk: a tenant's journal file exists once a line has
\* been appended to it
LogFiles ==
    {_activity_log_path(resolve_user_library_root(t)) :
        t \in {u \in Tenants : journal[u] # <<>>}}

\* the directories of the commit stores on disk: <root>/.git of each tenant
\* whose store has been made
GitDirs ==
    {resolve_user_library_root(t) \o <<".git">> : t \in {u \in Tenants : git[u].exists}}

Exists(p) == p \in DOMAIN fs \/ p \in dirs \/ p \in links \/ p \in LogFiles \/ p \in GitDirs
IsFile(p) == p \in DOMAIN fs \/ p \in LogFiles
IsDir(p) == p \in dirs \/ p \in GitDirs

\* Path.parent
Parent(p) == Front(p)

\* the directories mkdir(parents=True, exist_ok=True) leaves in place
MkdirParents(d, ds) == ds \cup {SubSeq(d, 1, n) : n \in 1..Len(d)}

WriteFile(f, p, bytes) == (p :> bytes) @@ f
RemoveFile(f, p) == [q \in (DOMAIN f) \ {p} |-> f[q]]

_atomic_write_truncated(f, p, text) == WriteFile(f, p, <<>>)

\* _atomic_write: the text reaches the target in one rename
_atomic_write(f, p, text) == WriteFile(f, p, Encode(text))

\* _atomic_write_bytes
_atomic_write_bytes(f, p, bytes) == WriteFile(f, p, bytes)

\* Path.suffix of a file name given as characters
Suffix(name) ==
    LET dots == {i \in 1..Len(name) : name[i] = "."}
    IN IF dots = {} THEN <<>>
       ELSE LET i == CHOOSE k \in dots : \A j \in dots : j <= k
            IN IF 1 < i /\ i < Len(name) THEN SubSeq(name, i, Len(name)) ELSE <<>>

ALLOWED_MARKDOWN_EXTENSIONS ==
    {<<".", "m", "d">>, <<".", "m", "a", "r", "k", "d", "o", "w", "n">>}

\* resolved_path.suffix for the path validate_path returns for raw: the
\* suffix of the last part, and of the root's own name (an id without dots,
\* so no suffix) when the raw path has no parts
ResolvedSuffix(raw) ==
    LET pc == PartsChars(ReplaceChar(raw.s, "\\", "/"))
    IN IF pc = <<>> THEN <<>> ELSE Suffix(Last(pc))

(***************************************************************************)
(* Commit store (src/app/mcp_git.py)                                       *)
(***************************************************************************)
\* no .git directory yet
GitAbsent == [exists |-> FALSE, head |-> "ref", detached |-> NoSha,
              loose |-> NoSha, packed |-> NoSha, commits |-> <<>>,
              index |-> EmptyFs]

\* _ensure_git_repo: porcelain.init writes HEAD as "ref: refs/heads/master"
\* and no branch file
_ensure_git_repo(g) == IF g.exists THEN g ELSE [GitAbsent EXCEPT !.exists = TRUE]

_lookup_packed_ref(g) == g.packed

_resolve_git_head(g) ==
    IF ~g.exists THEN NoSha
    ELSE IF g.head = "ref"
         THEN IF g.loose # NoSha THEN g.loose ELSE _lookup_packed_ref(g)
         ELSE g.detached

\* _read_head_state: (ref_path or None, previous id or None)
_read_head_state(g) ==
    IF ~g.exists THEN [ref |-> FALSE, prev |-> NoSha]
    ELSE IF g.head = "ref"
         THEN IF g.loose # NoSha THEN [ref |-> TRUE, prev |-> g.loose]
              ELSE [ref |-> TRUE, prev |-> _lookup_packed_ref(g)]
         ELSE [ref |-> FALSE, prev |-> g.detached]

_restore_git_head_keeps_ref(g, st) ==
    IF ~st.ref
    THEN IF st.prev = NoSha \/ ~g.exists THEN g
         ELSE [g EXCEPT !.head = "detached", !.detached = st.prev]
    ELSE IF st.prev = NoSha THEN g ELSE [g EXCEPT !.loose = st.prev]

_restore_git_head(g, st) ==
    IF ~st.ref
    THEN IF st.prev = NoSha \/ ~g.exists THEN g
         ELSE [g EXCEPT !.head = "detached", !.detached = st.prev]
    ELSE [g EXCEPT !.loose = st.prev]

\* stage + porcelain.commit: one new commit on top of HEAD; the branch HEAD
\* names (or HEAD itself when detached) moves to it
CommitOn(g, operation, target) ==
    LET sha == Len(g.commits) + 1
        c == [parent |-> _resolve_git_head(g), operation |-> operation, path |-> target]
    IN IF g.head = "ref"
       THEN [g EXCEPT !.commits = Append(@, c), !.loose = sha]
       ELSE [g EXCEPT !.commits = Append(@, c), !.detached = sha]

_commit_markdown_change(g, relative_path, operation) == CommitOn(g, operation, relative_path)

_commit_markdown_changes(g, relative_paths, operation, target) ==
    CommitOn(g, operation, target)

\* the id the commit just made by CommitOn carries
NewSha(g) == Len(g.commits) + 1

(***************************************************************************)
(* Activity journal (src/app/mcp_activity.py)                              *)
(***************************************************************************)
_build_activity_entry_no_sha(operation, relative_path, summary, commit_sha) ==
    [operation |-> operation, path |-> relative_path, summary |-> summary,
     commitSha |-> NoSha]

_build_activity_entry(operation, relative_path, summary, commit_sha) ==
    [operation |-> operation, path |-> relative_path, summary |-> summary,
     commitSha |-> commit_sha]

_append_activity_log_twice(j, entry) == Append(Append(j, entry), entry)

_append_activity_log(j, entry) == Append(j, entry)

\* _format_activity_summary
_format_activity_summary(operation, payload) ==
    IF operation \in {"write_markdown", "edit_markdown"}
    THEN IF payload.target.some /\ payload.target.s # <<>>
         THEN <<payload.type, Concat(payload.target.s)>>
         ELSE <<payload.type>>
    ELSE IF operation = "delete_markdown" THEN <<"delete file">>
    ELSE <<operation>>


(***************************************************************************)
(* Blocking disk operations.  A handler's effect on the disk is a sequence *)
(* of operations, each one system call (or one library call that a reader  *)
(* in another process cannot see inside).                                  *)
(***************************************************************************)
\* the kernel's resolution of a path: each '..' steps back to the parent
RECURSIVE Norm(_)
Norm(p) ==
    IF p = <<>> THEN <<>>
    ELSE IF Last(p) = ".."
         THEN IF Norm(Front(p)) = <<>> THEN <<>> ELSE Front(Norm(Front(p)))
         ELSE Append(Norm(Front(p)), Last(p))

\* the resolution succeeds: every '..' is taken in an existing directory
Resolves(p, ds) ==
    \A n \in 1..Len(p) :
        p[n] = ".." => Norm(SubSeq(p, 1, n - 1)) \in ds \cup {<<>>}

DiskOp(op, path, src, data) == [op |-> op, path |-> path, src |-> src, data |-> data]

\* every path at or below p
Under(p, paths) == {q \in paths : IsPrefix(p, q)}

\* shutil.rmtree(p), Path.rmdir(p)
RemoveTree(st, p) ==
    [fs |-> [q \in (DOMAIN st.fs) \ Under(p, DOMAIN st.fs) |-> st.fs[q]],
     dirs |-> st.dirs \ Under(p, st.dirs),
     logs |-> st.logs \ Under(p, st.logs),
     stores |-> st.stores \ Under(p, st.stores)]

\* the name q gets when the tree at src is renamed to dst
Rekey(q, src, dst) == dst \o SubSeq(q, Len(src) + 1, Len(q))

\* os.rename(src, dst), which shutil.move calls first
Rename(st, src, dst) ==
    LET movedF == Under(src, DOMAIN st.fs)
        movedD == Under(src, st.dirs)
        keptF == (DOMAIN st.fs) \ movedF
        newF == {Rekey(q, src, dst) : q \in movedF}
    IN [fs |-> [q \in keptF \cup newF |->
                   IF q \in newF
                   THEN st.fs[CHOOSE o \in movedF : Rekey(o, src, dst) = q]
                   ELSE st.fs[q]],
        dirs |-> (st.dirs \ movedD) \cup {Rekey(q, src, dst) : q \in movedD}
                    \cup (IF src \in st.stores THEN {dst} ELSE {}),
        logs |-> st.logs \ Under(src, st.logs),
        stores |-> st.stores \ Under(src, st.stores)]

\* the disk after one operation
ApplyOp(st, o) ==
    CASE o.op = "write_text" -> [st EXCEPT !.fs = _atomic_write(@, Norm(o.path), o.data)]
      [] o.op = "write_bytes" -> [st EXCEPT !.fs = _atomic_write_bytes(@, o.path, o.data)]
      [] o.op = "unlink" ->
            [st EXCEPT !.fs = RemoveFile(@, o.path), !.logs = @ \ {o.path}]
      [] o.op \in {"rmtree", "rmdir"} -> RemoveTree(st, o.path)
      [] o.op = "mkdir" -> [st EXCEPT !.dirs = MkdirParents(o.path, @)]
      [] o.op = "rename" -> Rename(st, o.src, o.path)
      [] o.op = "copy_open" -> [st EXCEPT !.fs = WriteFile(@, o.path, <<>>)]
      [] o.op = "copy_data" ->
            IF o.src \in DOMAIN st.fs
            THEN [st EXCEPT !.fs = WriteFile(@, o.path, st.fs[o.src])] ELSE st
      [] o.op = "index_append" ->
            [st EXCEPT !.fs = _atomic_write(@, o.path,
                _join_with_newline(IF o.path \in DOMAIN st.fs THEN Decode(st.fs[o.path])
                                   ELSE <<>>, o.data))]
      [] o.op = "raise" -> st
      [] OTHER -> st

\* the operation can succeed on this disk: the file system refuses the rest
Feasible(st, o) ==
    CASE o.op \in {"write_text", "write_bytes", "copy_open", "index_append"} ->
            /\ Resolves(o.path, st.dirs)
            /\ Parent(Norm(o.path)) \in st.dirs
            /\ Norm(o.path) \notin st.dirs
            /\ o.op = "copy_open" => o.src \in DOMAIN st.fs
      [] o.op = "unlink" -> o.path \in (DOMAIN st.fs) \cup st.logs
      [] o.op = "rmtree" -> o.path \in st.dirs \cup st.stores
      [] o.op = "rmdir" ->
            o.path \in st.dirs /\ Under(o.path, (DOMAIN st.fs) \cup st.dirs) = {o.path}
      [] o.op = "mkdir" -> ~\E n \in 1..Len(o.path) : SubSeq(o.path, 1, n) \in DOMAIN st.fs
      [] o.op = "rename" ->
            /\ o.src \in (DOMAIN st.fs) \cup st.dirs \cup st.stores
            /\ Parent(o.path) \in st.dirs
            /\ ~IsPrefix(o.src, o.path)
      [] o.op = "copy_data" -> o.src \in DOMAIN st.fs /\ o.path \in DOMAIN st.fs
      [] o.op = "raise" -> FALSE
      [] OTHER -> TRUE

\* the disk after a whole sequence of operations, each one succeeding
RECURSIVE ApplyAll(_, _)
ApplyAll(st, ops) == IF ops = <<>> THEN st ELSE ApplyAll(ApplyOp(st, Head(ops)), Tail(ops))

\* the paths an operation reads, writes or removes
Touches(o) ==
    IF o.op \in {"rename", "copy_data"} THEN {o.path, o.src}
    ELSE IF o.op \in {"open_repo", "raise"} THEN {}
    ELSE {Norm(o.path)}

\* _ensure_git_repo followed by _read_head_state
OpenRepo == DiskOp("open_repo", <<>>, <<>>, <<>>)
Mkdir(p) == DiskOp("mkdir", p, <<>>, <<>>)

(***************************************************************************)
(* A tool call in progress.  A call runs as a sequence of steps, one per   *)
(* blocking disk or commit-store operation; req.pc is the call's position: *)
(*   idle -> write (once per operation in req.todo) -> commit -> journal   *)
(*        -> done                                                          *)
(*   commit fails:  the handler's except branch runs, then done            *)
(*   journal fails: rollback_file -> restore_head -> done (LOG_ERROR) in   *)
(*                  the handlers that catch it; done otherwise             *)
(* req.pre is the state on entry and req.goal the disk the call is         *)
(* writing towards; both are kept to state the call's contract.            *)
(***************************************************************************)
NoContent == [kind |-> "none", data |-> <<>>]
Text(d) == [kind |-> "text", data |-> d]
Bytes(d) == [kind |-> "bytes", data |-> d]
Created == [kind |-> "created", data |-> <<>>]
Unlink == [kind |-> "unlink", data |-> <<>>]

\* the disk as the operations see it: files, directories and journal files
Disk == [fs |-> fs, dirs |-> dirs, logs |-> LogFiles, stores |-> GitDirs]

Snapshot(t) ==
    [fs |-> fs, dirs |-> dirs, head |-> _resolve_git_head(git[t]),
     journal |-> journal[t], ncommits |-> Len(git[t].commits), git |-> git,
     journals |-> journal]

\* what a delete request carried: its flags and the path it resolved to
\* (empty when the path was missing or refused)
DeleteArgs(confirm, recursive, vp) ==
    [confirm |-> confirm, recursive |-> recursive,
     target |-> IF vp.ok THEN vp.value ELSE <<>>]
NoArgs == [confirm |-> FALSE, recursive |-> FALSE, target |-> <<>>]

IdleReq ==
    [pc |-> "idle", tool |-> "none", t |-> "ann", target |-> <<>>, rel |-> <<>>,
     original |-> NoContent, post |-> NoContent, summary |-> <<>>,
     head_state |-> [ref |-> FALSE, prev |-> NoSha], commit_sha |-> NoSha,
     code |-> "none", n |-> 0, todo |-> <<>>, commit |-> TRUE, touched |-> {},
     response |-> {}, args |-> NoArgs,
     goal |-> [fs |-> EmptyFs, dirs |-> {}, logs |-> {}, stores |-> {}],
     pre |-> [fs |-> EmptyFs, dirs |-> {}, head |-> NoSha, journal |-> <<>>,
              ncommits |-> 0, git |-> [t \in Tenants |-> GitAbsent],
              journals |-> [t \in Tenants |-> <<>>]]]

MarkdownTools == {"create_markdown", "write_markdown", "edit_markdown", "delete_markdown"}

\* handlers whose except branches undo the file: on a commit failure the
\* rollback primitive, on a journal failure the primitive and _restore_git_head
RollbackTools == MarkdownTools \cup {"create_directory"}

\* handlers whose only except branch is _restore_git_head around the commit
RestoreHeadTools == {"move_path", "copy_path", "delete_path", "ingest_transcript"}

\* the request record of a call that ends with an error response
RejectedReq(tool, t, code) ==
    [IdleReq EXCEPT !.pc = "done", !.tool = tool, !.t = t, !.code = code,
                    !.n = req.n + 1, !.goal = Disk, !.pre = Snapshot(t)]

\* the request record of a call that passed its checks
AcceptedReq(tool, t, p) ==
    [IdleReq EXCEPT !.pc = "write", !.tool = tool, !.t = t, !.n = req.n + 1,
                    !.target = p.target, !.rel = p.rel,
                    !.original = p.original, !.post = p.post,
                    !.summary = p.summary, !.todo = p.todo,
                    !.commit = p.commit,
                    !.touched = p.reads,
                    !.goal = ApplyAll(Disk, p.todo),
                    !.pre = Snapshot(t)]

Rejected_and_logged(tool, t, code) ==
    /\ req' = RejectedReq(tool, t, code)
    /\ journal' = [journal EXCEPT ![t] =
           Append(@, [operation |-> tool, path |-> <<>>, summary |-> <<code>>,
                      commitSha |-> NoSha])]
    /\ UNCHANGED <<fs, dirs, links, git, call>>

\* the call ends here with an error response; nothing is written
Rejected(tool, t, code) ==
    /\ req' = RejectedReq(tool, t, code)
    /\ UNCHANGED <<fs, dirs, links, git, journal, call>>

\* the checks are passed: the call goes on to its disk operations
Accepted(tool, t, p) ==
    /\ Len(p.post.data) <= MaxLen
    /\ req' = AcceptedReq(tool, t, p)
    /\ UNCHANGED <<fs, dirs, links, git, journal, call>>

\* Path.relative_to(library_root)
RelativeTo(p, root) == SubSeq(p, Len(root) + 1, Len(p))

Plan(target, rel, original, post, summary, todo, reads) ==
    [target |-> target, rel |-> rel, original |-> original, post |-> post,
     summary |-> summary, todo |-> todo, reads |-> reads, commit |-> TRUE]

(***************************************************************************)
(* Markdown tools (src/app/mcp_markdown.py): everything a handler does     *)
(* before its first disk operation                                         *)
(***************************************************************************)
create_markdown_plan(t, payload) ==
    LET root == resolve_user_library_root(t)
        vp == validate_path(root, payload.path, links)
        resolved_path == vp.value
    IN IF payload.path.kind = "missing" THEN Err("MISSING_PATH")
       ELSE IF payload.content.kind = "missing" THEN Err("MISSING_CONTENT")
       ELSE IF payload.content.kind # "str" THEN Err("INVALID_TYPE")
       ELSE IF ~vp.ok THEN vp
       ELSE IF ResolvedSuffix(payload.path) \notin ALLOWED_MARKDOWN_EXTENSIONS
            THEN Err("NOT_MARKDOWN")
       ELSE IF Exists(resolved_path) THEN Err("PATH_EXISTS")
       ELSE IF Exists(Parent(resolved_path)) /\ ~IsDir(Parent(resolved_path))
            THEN Err("INVALID_PATH")
       ELSE Ok(Plan(resolved_path, RelativeTo(resolved_path, root), Created,
                    Text(payload.content.s), <<"create file">>,
                    <<Mkdir(Parent(resolved_path)), OpenRepo,
                      DiskOp("write_text", resolved_path, <<>>, payload.content.s)>>, {}))

\* the checks write_markdown, edit_markdown and delete_markdown make on the
\* path of an existing file
ExistingFileCheck(t, payload) ==
    LET vp == validate_path(resolve_user_library_root(t), payload.path, links)
    IN IF ~vp.ok THEN vp
       ELSE IF ResolvedSuffix(payload.path) \notin ALLOWED_MARKDOWN_EXTENSIONS
            THEN Err("NOT_MARKDOWN")
       ELSE IF ~Exists(vp.value) THEN Err("FILE_NOT_FOUND")
       ELSE IF ~IsFile(vp.value) THEN Err("INVALID_PATH")
       ELSE vp

write_markdown_plan(t, payload) ==
    LET root == resolve_user_library_root(t)
        chk == ExistingFileCheck(t, payload)
        resolved_path == chk.value
        current_content == Decode(fs[resolved_path])
        updated_content == _apply_write_operation(current_content, payload.operation)
    IN IF payload.path.kind = "missing" THEN Err("MISSING_PATH")
       ELSE IF payload.operation.kind = "missing" THEN Err("MISSING_OPERATION")
       ELSE IF ~chk.ok THEN chk
       ELSE IF ~updated_content.ok THEN updated_content
       ELSE Ok(Plan(resolved_path, RelativeTo(resolved_path, root),
                    Text(current_content), Text(updated_content.value),
                    _format_activity_summary("write_markdown", payload.operation),
                    <<OpenRepo,
                      DiskOp("write_text", resolved_path, <<>>, updated_content.value)>>,
                    {resolved_path}))

edit_markdown_plan(t, payload) ==
    LET root == resolve_user_library_root(t)
        chk == ExistingFileCheck(t, payload)
        resolved_path == chk.value
        current_content == Decode(fs[resolved_path])
        updated_content == _apply_edit_operation(current_content, payload.operation)
    IN IF payload.path.kind = "missing" THEN Err("MISSING_PATH")
       ELSE IF payload.operation.kind = "missing" THEN Err("MISSING_OPERATION")
       ELSE IF ~chk.ok THEN chk
       ELSE IF ~updated_content.ok THEN updated_content
       ELSE Ok(Plan(resolved_path, RelativeTo(resolved_path, root),
                    Text(current_content), Text(updated_content.value),
                    _format_activity_summary("edit_markdown", payload.operation),
                    <<OpenRepo,
                      DiskOp("write_text", resolved_path, <<>>, updated_content.value)>>,
                    {resolved_path}))

delete_markdown_plan(t, payload) ==
    LET root == resolve_user_library_root(t)
        vp == validate_path(root, payload.path, links)
        chk == ExistingFileCheck(t, payload)
        resolved_path == chk.value
    IN IF payload.path.kind = "missing" THEN Err("MISSING_PATH")
       ELSE IF ~vp.ok THEN vp
       ELSE IF ~payload.confirm THEN Err("CONFIRM_REQUIRED")
       ELSE IF ~chk.ok THEN chk
       ELSE Ok(Plan(resolved_path, RelativeTo(resolved_path, root),
                    Bytes(fs[resolved_path]), Unlink,
                    _format_activity_summary("delete_markdown", MissingOp),
                    <<OpenRepo, DiskOp("unlink", resolved_path, <<>>, <<>>)>>,
                    {resolved_path}))

(***************************************************************************)
(* The steps a call runs after its checks                                  *)
(***************************************************************************)
DiskUnchanged == UNCHANGED <<fs, dirs, links, git, journal, call>>

\* _rollback_markdown_change with the original text or bytes
_rollback_markdown_change(f, r) ==
    IF r.original.kind = "bytes" THEN _atomic_write_bytes(f, r.target, r.original.data)
    ELSE _atomic_write(f, r.target, r.original.data)

\* _rollback_created_file: unlink the target if it exists
_rollback_created_file(f, r) == RemoveFile(f, r.target)

\* the rollback primitive the handler's except branches call
Rollback(f, r) ==
    IF r.original.kind = "created" THEN _rollback_created_file(f, r)
    ELSE _rollback_markdown_change(f, r)

\* the next disk operation of the call succeeds
WriteStep ==
    /\ req.pc = "write"
    /\ LET o == Head(req.todo)
           st == ApplyOp(Disk, o)
           kept == [t \in Tenants |->
                       IF git[t].exists
                          /\ resolve_user_library_root(t) \o <<".git">> \notin st.stores
                       THEN GitAbsent ELSE git[t]]
           repo == _ensure_git_repo(git[req.t])
       IN /\ Feasible(Disk, o)
          /\ fs' = st.fs
          /\ dirs' = IF o.op = "open_repo"
                     THEN MkdirParents(resolve_user_library_root(req.t), st.dirs)
                     ELSE st.dirs
          /\ journal' = [t \in Tenants |->
                 IF _activity_log_path(resolve_user_library_root(t)) \in st.logs
                 THEN journal[t] ELSE <<>>]
          /\ git' = IF o.op = "open_repo" THEN [git EXCEPT ![req.t] = repo] ELSE kept
          /\ req' = [req EXCEPT !.todo = Tail(@),
                                !.touched = @ \cup Touches(o),
                                !.pc = IF Tail(req.todo) # <<>> THEN "write"
                                       ELSE IF req.commit THEN "commit" ELSE "done",
                                !.code = IF Tail(req.todo) = <<>> /\ ~req.commit
                                         THEN "OK" ELSE @,
                                !.head_state = IF o.op = "open_repo"
                                               THEN _read_head_state(repo) ELSE @]
    /\ UNCHANGED <<links, call>>

\* the next disk operation raises (disk full, permissions, a path the file
\* system refuses): no handler catches it, except that _ensure_git_repo
\* turns its own failure into GIT_ERROR
WriteFails ==
    /\ req.pc = "write"
    /\ req' = [req EXCEPT !.pc = "done",
                          !.code = IF Head(req.todo).op = "open_repo" THEN "GIT_ERROR"
                                   ELSE "UNHANDLED"]
    /\ DiskUnchanged

CommitStep ==
    /\ req.pc = "commit"
    /\ git' = [git EXCEPT ![req.t] =
                  IF req.tool \in RestoreHeadTools
                  THEN _commit_markdown_changes(@, req.touched, req.tool, req.rel)
                  ELSE _commit_markdown_change(@, req.rel, req.tool)]
    /\ req' = [req EXCEPT !.pc = "journal", !.commit_sha = NewSha(git[req.t])]
    /\ UNCHANGED <<fs, dirs, links, journal, call>>

\* staging or porcelain.commit raises: the handler's except branch runs
CommitFails ==
    /\ req.pc = "commit"
    /\ fs' = IF req.tool \in RollbackTools THEN Rollback(fs, req) ELSE fs
    /\ git' = IF req.tool \in RestoreHeadTools
              THEN [git EXCEPT ![req.t] = _restore_git_head(@, req.head_state)]
              ELSE git
    /\ req' = [req EXCEPT !.pc = "done", !.code = "GIT_ERROR"]
    /\ UNCHANGED <<dirs, links, journal, call>>

JournalStep ==
    /\ req.pc = "journal"
    /\ journal' = [journal EXCEPT ![req.t] =
           _append_activity_log(@, _build_activity_entry(req.tool, req.rel, req.summary,
                                                         req.commit_sha))]
    /\ req' = [req EXCEPT !.pc = "done", !.code = "OK"]
    /\ UNCHANGED <<fs, dirs, links, git, call>>

\* _append_activity_log raises before its line reaches the file: the
\* handlers with an except branch start their rollback, the others let the
\* exception out
JournalFails ==
    /\ req.pc = "journal"
    /\ req' = IF req.tool \in RollbackTools THEN [req EXCEPT !.pc = "rollback_file"]
              ELSE [req EXCEPT !.pc = "done", !.code = "UNHANDLED"]
    /\ DiskUnchanged

RollbackFileStep ==
    /\ req.pc = "rollback_file"
    /\ fs' = Rollback(fs, req)
    /\ req' = [req EXCEPT !.pc = "restore_head"]
    /\ UNCHANGED <<dirs, links, git, journal, call>>

RestoreHeadStep ==
    /\ req.pc = "restore_head"
    /\ git' = [git EXCEPT ![req.t] = _restore_git_head(@, req.head_state)]
    /\ req' = [req EXCEPT !.pc = "done", !.code = "LOG_ERROR"]
    /\ UNCHANGED <<fs, dirs, links, journal, call>>

\* the response has been sent; the next call may start
Return ==
    /\ req.pc = "done"
    /\ req' = [IdleReq EXCEPT !.n = req.n]
    /\ DiskUnchanged
(***************************************************************************)
(* Specification Spec: one tenant calls the four markdown tools, one call  *)
(* at a time; the write, the commit and the journal append may each fail.  *)
(***************************************************************************)
P_a_md == <<"a", ".", "m", "d">>
P_d_a_md == <<"d", "/", "a", ".", "m", "d">>
P_a_txt == <<"a", ".", "t">>
P_up == <<".", ".", "/", "a", ".", "m", "d">>
P_abs == <<"/", "a", ".", "m", "d">>
P_d == <<"d">>

PathInputs == {Str(P_a_md), Str(P_d_a_md), Str(P_a_txt), Str(P_up), Str(P_abs),
               Str(P_d), Str(<<>>), NonStr, Missing}

ContentInputs == {Str(<<"a">>), Str(<<"#", LF, "a">>), Str(<<"a", CR, LF>>),
                  Str(<<>>), NonStr, Missing}

WriteOpInputs == {Op("append", <<"b">>), Op("prepend", <<"b", LF>>), Op("append", <<>>),
                  Op("replace_section", <<"b">>), MissingOp}

EditOpInputs == {OpAt("replace_section", <<"#", LF, "b">>, <<"#">>),
                 OpAt("insert_before", <<"b">>, <<"#">>),
                 OpAt("insert_after", <<"b", LF>>, <<"#", LF>>),
                 OpAt("replace_section", <<"b">>, <<"#", "#">>),
                 OpAt("insert_after", <<"b">>, <<"a">>),
                 Op("replace_section", <<"b">>),
                 Op("append", <<"b">>), MissingOp}

Caller == "ann"

CanCall(t) == req.pc = "idle" /\ req.n < MaxCalls

create_markdown ==
    \E path \in PathInputs, content \in ContentInputs :
        LET plan == create_markdown_plan(Caller, [path |-> path, content |-> content])
        IN /\ CanCall(Caller)
           /\ IF plan.ok THEN Accepted("create_markdown", Caller, plan.value)
              ELSE Rejected("create_markdown", Caller, plan.code)

write_markdown ==
    \E path \in PathInputs, operation \in WriteOpInputs :
        LET plan == write_markdown_plan(Caller, [path |-> path, operation |-> operation])
        IN /\ CanCall(Caller)
           /\ IF plan.ok THEN Accepted("write_markdown", Caller, plan.value)
              ELSE Rejected("write_markdown", Caller, plan.code)

edit_markdown ==
    \E path \in PathInputs, operation \in EditOpInputs :
        LET plan == edit_markdown_plan(Caller, [path |-> path, operation |-> operation])
        IN /\ CanCall(Caller)
           /\ IF plan.ok THEN Accepted("edit_markdown", Caller, plan.value)
              ELSE Rejected("edit_markdown", Caller, plan.code)

delete_markdown ==
    \E path \in PathInputs, confirm \in BOOLEAN :
        LET plan == delete_markdown_plan(Caller, [path |-> path, confirm |-> confirm])
            args == DeleteArgs(confirm, FALSE,
                               validate_path(resolve_user_library_root(Caller), path, links))
        IN /\ CanCall(Caller)
           /\ req' = IF plan.ok
                     THEN [AcceptedReq("delete_markdown", Caller, plan.value)
                              EXCEPT !.args = args]
                     ELSE [RejectedReq("delete_markdown", Caller, plan.code)
                              EXCEPT !.args = args]
           /\ UNCHANGED <<fs, dirs, links, git, journal, call>>

\* every tenant has made a request before: its root directory exists
TenantRoots == {<<"users">>} \cup {resolve_user_library_root(t) : t \in Tenants}

NoCall == [fn |-> "none", in |-> NonStr, out |-> Err("NONE")]

Init ==
    /\ fs = EmptyFs
    /\ dirs = TenantRoots
    /\ links = {}
    /\ git = [t \in Tenants |-> GitAbsent]
    /\ journal = [t \in Tenants |-> <<>>]
    /\ req = IdleReq
    /\ call = NoCall

Next ==
    \/ create_markdown
    \/ write_markdown
    \/ edit_markdown
    \/ delete_markdown
    \/ WriteStep
    \/ WriteFails
    \/ CommitStep
    \/ CommitFails
    \/ JournalStep
    \/ JournalFails
    \/ RollbackFileStep
    \/ RestoreHeadStep
    \/ Return

Spec == Init /\ [][Next]_vars


(***************************************************************************)
(* Properties of the markdown tools, checked under Spec                    *)
(***************************************************************************)
\* what a reader finds at path p
FileAt(f, p) == IF p \in DOMAIN f THEN <<"file", f[p]>> ELSE <<"absent">>

MarkdownDone(code) == req.pc = "done" /\ req.tool \in MarkdownTools /\ req.code = code

\* C1: when a markdown tool returns success, the target file holds the
\* post-image (it is absent after delete_markdown), HEAD names exactly one
\* new commit on top of the pre-request HEAD and that commit is the returned
\* commitSha, and the journal's last entry is the one new entry and carries
\* that commitSha.
C1_SuccessContract ==
    MarkdownDone("OK") =>
        /\ IF req.tool = "delete_markdown" THEN FileAt(fs, req.target) = <<"absent">>
           ELSE FileAt(fs, req.target) = <<"file", Encode(req.post.data)>>
        /\ req.commit_sha # NoSha
        /\ _resolve_git_head(git[req.t]) = req.commit_sha
        /\ Len(git[req.t].commits) = req.pre.ncommits + 1
        /\ git[req.t].commits[req.commit_sha].parent = req.pre.head
        /\ Len(journal[req.t]) = Len(req.pre.journal) + 1
        /\ Front(journal[req.t]) = req.pre.journal
        /\ Last(journal[req.t]).commitSha = req.commit_sha

C1_Witness ==
    /\ MarkdownDone("OK")
    /\ req.tool = "edit_markdown"
    /\ req.pre.head # NoSha
    /\ req.post.data # req.original.data

\* C7: when the journal append fails in a markdown tool, the call ends with
\* LOG_ERROR, the target file is byte-identical to its pre-image (absent if
\* it was absent), HEAD resolves to the pre-request id and the journal is
\* exactly as before.
C7_JournalFailureRestores ==
    MarkdownDone("LOG_ERROR") =>
        /\ FileAt(fs, req.target) = FileAt(req.pre.fs, req.target)
        /\ _resolve_git_head(git[req.t]) = req.pre.head
        /\ journal[req.t] = req.pre.journal

\* C8: when the commit fails in a markdown tool, the call ends with
\* GIT_ERROR, the target file's bytes equal the pre-image, HEAD is unchanged
\* and no journal entry is appended.
C8_CommitFailureRestores ==
    MarkdownDone("GIT_ERROR") =>
        /\ fs = req.pre.fs
        /\ _resolve_git_head(git[req.t]) = req.pre.head
        /\ journal[req.t] = req.pre.journal

\* C9: at every point of a markdown mutation, rollback paths included,
\* every journal entry names a commit that exists in the store, and whenever
\* HEAD resolves to the commit the mutation made, the target file holds the
\* mutation's post-image.
C9_HeadNeverAheadOfFile ==
    /\ \A t \in Tenants : \A i \in 1..Len(journal[t]) :
           journal[t][i].commitSha \in 1..Len(git[t].commits)
    /\ (/\ req.tool \in MarkdownTools
        /\ req.commit_sha # NoSha
        /\ _resolve_git_head(git[req.t]) = req.commit_sha) =>
           IF req.tool = "delete_markdown" THEN FileAt(fs, req.target) = <<"absent">>
           ELSE FileAt(fs, req.target) = <<"file", Encode(req.post.data)>>

\* the call is a markdown mutation stopped at position pc
MarkdownAt(pc) == req.pc = pc /\ req.tool \in MarkdownTools

\* the target holds the mutation's post-image and no other file differs
\* from the state on entry
HoldsPostImage ==
    /\ IF req.tool = "delete_markdown" THEN FileAt(fs, req.target) = <<"absent">>
       ELSE FileAt(fs, req.target) = <<"file", Encode(req.post.data)>>
    /\ \A q \in (DOMAIN fs \cup DOMAIN req.pre.fs) \ {req.target} :
           FileAt(fs, q) = FileAt(req.pre.fs, q)

\* C11 (as stated): a markdown mutation that stops part-way leaves one of
\* three shapes: before the atomic write nothing at all has changed on disk
\* (files, directories, commit store, journal); between the write and the
\* commit the file holds the post-image and no new commit exists; between
\* the commit and the journal append the commit exists and no journal entry
\* for it exists.
C11_AbortShapes ==
    /\ MarkdownAt("write") =>
           /\ fs = req.pre.fs
           /\ dirs = req.pre.dirs
           /\ git = req.pre.git
           /\ journal = req.pre.journals
    /\ MarkdownAt("commit") =>
           /\ HoldsPostImage
           /\ Len(git[req.t].commits) = req.pre.ncommits
           /\ journal = req.pre.journals
    /\ MarkdownAt("journal") =>
           /\ Len(git[req.t].commits) = req.pre.ncommits + 1
           /\ journal = req.pre.journals

\* C11 (amended): before the atomic write no file, commit or journal entry
\* has changed; the only changes are missing parent directories of the
\* target and an empty commit store where there was none.  Between the
\* write and the commit the target holds the post-image, no other file
\* differs and no new commit exists; between the commit and the journal
\* append exactly one new commit exists, HEAD names it, the target holds the
\* post-image and the journal is as on entry.
C11_AbortShapesOfFiles ==
    /\ MarkdownAt("write") =>
           /\ fs = req.pre.fs
           /\ req.pre.dirs \subseteq dirs
           /\ dirs \subseteq MkdirParents(Parent(req.target), req.pre.dirs)
           /\ git[req.t] \in {req.pre.git[req.t], _ensure_git_repo(req.pre.git[req.t])}
           /\ journal = req.pre.journals
    /\ MarkdownAt("commit") =>
           /\ HoldsPostImage
           /\ Len(git[req.t].commits) = req.pre.ncommits
           /\ _resolve_git_head(git[req.t]) = req.pre.head
           /\ journal = req.pre.journals
    /\ MarkdownAt("journal") =>
           /\ HoldsPostImage
           /\ Len(git[req.t].commits) = req.pre.ncommits + 1
           /\ _resolve_git_head(git[req.t]) = req.commit_sha
           /\ journal = req.pre.journals

C11_Witness ==
    /\ MarkdownAt("journal")
    /\ req.tool = "create_markdown"
    /\ dirs # req.pre.dirs
    /\ req.post.data # <<>>

\* the codes of validation and existence errors
VALIDATION_CODES ==
    {"MISSING_PATH", "MISSING_CONTENT", "MISSING_OPERATION", "MISSING_TARGET",
     "INVALID_TYPE", "INVALID_PATH", "INVALID_OPERATION", "INVALID_TARGET",
     "ABSOLUTE_PATH", "PATH_TRAVERSAL", "PATH_SYMLINK", "NOT_MARKDOWN",
     "SECTION_NOT_FOUND", "FILE_NOT_FOUND", "PATH_EXISTS", "CONFIRM_REQUIRED"}

\* C12: a call that fails with a validation or existence error creates no
\* commit, appends no journal entry and leaves every file and directory
\* unchanged.
C12_ValidationErrorChangesNothing ==
    (req.pc = "done" /\ req.code \in VALIDATION_CODES) =>
        /\ fs = req.pre.fs
        /\ dirs = req.pre.dirs
        /\ git = req.pre.git
        /\ journal = req.pre.journals

C12_Witness ==
    /\ req.pc = "done"
    /\ req.tool = "edit_markdown"
    /\ req.code = "SECTION_NOT_FOUND"
    /\ req.pre.fs # EmptyFs
    /\ req.pre.journal # <<>>
(***************************************************************************)
(* Path, directory and transcript tools (src/app/mcp_files.py,             *)
(* src/app/mcp_transcripts.py, src/app/mcp_projects.py): everything a      *)
(* handler does before its first disk operation                            *)
(***************************************************************************)
\* Path.__truediv__: an absolute right operand replaces the left one
JoinPath(base, raw) == IF IsAbsolute(raw) THEN Parts(raw) ELSE base \o Parts(raw)

\* Path.as_posix of a relative path, as text
RECURSIVE AsPosix(_)
AsPosix(parts) ==
    IF Len(parts) <= 1 THEN parts ELSE <<Head(parts), "/">> \o AsPosix(Tail(parts))

\* some enumeration of a finite set (directory listing order)
RECURSIVE SeqOf(_)
SeqOf(S) ==
    IF S = {} THEN <<>>
    ELSE LET x == CHOOSE y \in S : TRUE IN <<x>> \o SeqOf(S \ {x})

_remove_path(target, recursive) ==
    IF IsDir(target)
    THEN IF recursive THEN DiskOp("rmtree", target, <<>>, <<>>)
         ELSE DiskOp("rmdir", target, <<>>, <<>>)
    ELSE DiskOp("unlink", target, <<>>, <<>>)

\* shutil.copy2: the destination is opened for writing (created empty or
\* truncated), then the source's bytes are copied into it
CopyFileOps(src, dst) ==
    <<DiskOp("copy_open", dst, src, <<>>), DiskOp("copy_data", dst, src, <<>>)>>

\* shutil.copytree: the directories are made and each file is copied
CopyTreeOps(src, dst) ==
    SeqOf({Mkdir(Rekey(d, src, dst)) : d \in Under(src, dirs)})
        \o Flatten(SeqOf({CopyFileOps(f, Rekey(f, src, dst)) : f \in Under(src, DOMAIN fs)}))

create_directory_plan(t, payload) ==
    LET root == resolve_user_library_root(t)
        vp == validate_path(root, payload.path, links)
        resolved_path == vp.value
        gitkeep_path == resolved_path \o <<".gitkeep">>
    IN IF payload.path.kind = "missing" THEN Err("MISSING_PATH")
       ELSE IF ~vp.ok THEN vp
       ELSE IF Exists(resolved_path) /\ ~IsDir(resolved_path) THEN Err("INVALID_PATH")
       ELSE IF ~payload.gitkeep
            THEN Ok([Plan(resolved_path, <<>>, NoContent, NoContent, <<>>,
                          <<Mkdir(resolved_path)>>, {}) EXCEPT !.commit = FALSE])
       ELSE Ok(Plan(gitkeep_path, RelativeTo(gitkeep_path, root), Created, Text(<<>>),
                    <<"create directory">>,
                    <<Mkdir(resolved_path)>>
                        \o (IF Exists(gitkeep_path) THEN <<>>
                            ELSE <<DiskOp("write_text", gitkeep_path, <<>>, <<>>)>>)
                        \o <<OpenRepo>>, {}))

\* the checks move_path and copy_path share
TwoPathCheck(t, payload) ==
    LET root == resolve_user_library_root(t)
        source == validate_path(root, payload.from_path, links)
        destination == validate_path(root, payload.to_path, links)
    IN IF payload.from_path.kind = "missing" \/ payload.to_path.kind = "missing"
       THEN Err("MISSING_PATH")
       ELSE IF ~source.ok THEN source
       ELSE IF ~destination.ok THEN destination
       ELSE IF ~Exists(source.value) THEN Err("FILE_NOT_FOUND")
       ELSE IF Exists(destination.value) /\ ~payload.overwrite THEN Err("PATH_EXISTS")
       ELSE Ok([source |-> source.value, destination |-> destination.value])

move_path_plan(t, payload) ==
    LET root == resolve_user_library_root(t)
        chk == TwoPathCheck(t, payload)
        source == chk.value.source
        destination == chk.value.destination
    IN IF ~chk.ok THEN chk
       ELSE Ok(Plan(destination, RelativeTo(destination, root), NoContent, NoContent,
                    <<"move path">>,
                    (IF Exists(destination) THEN <<_remove_path(destination, TRUE)>>
                     ELSE <<>>)
                        \o <<Mkdir(Parent(destination)),
                             DiskOp("rename", destination, source, <<>>), OpenRepo>>, {}))

copy_path_plan(t, payload) ==
    LET root == resolve_user_library_root(t)
        chk == TwoPathCheck(t, payload)
        source == chk.value.source
        destination == chk.value.destination
    IN IF ~chk.ok THEN chk
       ELSE Ok(Plan(destination, RelativeTo(destination, root), NoContent, NoContent,
                    <<"copy path">>,
                    (IF Exists(destination) THEN <<_remove_path(destination, TRUE)>>
                     ELSE <<>>)
                        \o <<Mkdir(Parent(destination))>>
                        \o (IF IsDir(source) THEN CopyTreeOps(source, destination)
                            ELSE CopyFileOps(source, destination))
                        \o <<OpenRepo>>, {}))

delete_path_plan_unconfirmed(t, payload) ==
    LET root == resolve_user_library_root(t)
        vp == validate_path(root, payload.path, links)
        target == vp.value
    IN IF payload.path.kind = "missing" THEN Err("MISSING_PATH")
       ELSE IF ~vp.ok THEN vp
       ELSE IF ~Exists(target) THEN Err("FILE_NOT_FOUND")
       ELSE IF IsDir(target) /\ ~payload.recursive THEN Err("RECURSIVE_REQUIRED")
       ELSE Ok(Plan(target, RelativeTo(target, root), NoContent, NoContent,
                    <<"delete path">>,
                    <<_remove_path(target, payload.recursive), OpenRepo>>, {}))

delete_path_plan(t, payload) ==
    LET root == resolve_user_library_root(t)
        vp == validate_path(root, payload.path, links)
        target == vp.value
    IN IF payload.path.kind = "missing" THEN Err("MISSING_PATH")
       ELSE IF ~payload.confirm THEN Err("CONFIRM_REQUIRED")
       ELSE IF ~vp.ok THEN vp
       ELSE IF ~Exists(target) THEN Err("FILE_NOT_FOUND")
       ELSE IF IsDir(target) /\ ~payload.recursive THEN Err("RECURSIVE_REQUIRED")
       ELSE Ok(Plan(target, RelativeTo(target, root), NoContent, NoContent,
                    <<"delete path">>,
                    <<_remove_path(target, payload.recursive), OpenRepo>>, {}))

Digits == {"0", "1", "2", "3", "4", "5", "6", "7", "8", "9"}

\* datetime.fromisoformat accepts the text as a calendar date YYYY-MM-DD
IsIsoDate(s) ==
    /\ Len(s) = 10
    /\ s[5] = "-" /\ s[8] = "-"
    /\ \A i \in {1, 2, 3, 4, 6, 7, 9, 10} : s[i] \in Digits
    /\ <<s[6], s[7]>> \in {<<"0", d>> : d \in Digits \ {"0"}} \cup
                          {<<"1", "0">>, <<"1", "1">>, <<"1", "2">>}
    /\ <<s[9], s[10]>> \in ({<<a, b>> : a \in {"0", "1", "2"}, b \in Digits} \ {<<"0", "0">>})

\* datetime.now(timezone.utc).date().isoformat()
Today == <<"2", "0", "2", "4", "-", "0", "1", "-", "0", "3">>

\* f"transcript-{parsed_date.strftime('%Y%m%d-%H%M%S')}.md"
DefaultTranscriptName(d) ==
    <<"t", "r", "a", "n", "s", "c", "r", "i", "p", "t", "-">>
        \o SubSeq(d, 1, 4) \o SubSeq(d, 6, 7) \o SubSeq(d, 9, 10)
        \o <<"-", "0", "0", "0", "0", "0", "0", ".", "m", "d">>

ingest_transcript_plan(t, payload) ==
    LET library_root == resolve_user_library_root(t)
        date_value == IF payload.date.kind = "missing" \/ payload.date.s = <<>>
                      THEN Today ELSE payload.date.s
        folder == Concat(SubSeq(date_value, 1, 7))
        filename == IF payload.filename.kind = "missing" \/
                       (payload.filename.kind = "str" /\ payload.filename.s = <<>>)
                    THEN DefaultTranscriptName(date_value) ELSE payload.filename.s
        transcript_dir == library_root \o <<"transcripts", folder>>
        transcript_path == JoinPath(transcript_dir, filename)
        index_path == library_root \o <<"transcripts", "index.md">>
        relative == RelativeTo(transcript_path, library_root)
        index_line == date_value \o <<" - ">> \o AsPosix(relative)
    IN IF payload.content.kind = "missing" THEN Err("MISSING_CONTENT")
       ELSE IF payload.content.kind # "str" THEN Err("INVALID_TYPE")
       ELSE IF payload.date.kind = "other" THEN Err("UNHANDLED")
       ELSE IF ~IsIsoDate(date_value) THEN Err("INVALID_DATE")
       ELSE IF payload.filename.kind = "other" THEN Err("INVALID_TYPE")
       ELSE Ok(Plan(transcript_path, relative, NoContent, NoContent,
                    <<"ingest transcript">>,
                    <<Mkdir(transcript_dir),
                      DiskOp("write_text", transcript_path, <<>>, payload.content.s)>>
                        \o (IF IsPrefix(library_root, transcript_path)
                            THEN <<OpenRepo,
                                   DiskOp("index_append", index_path, <<>>, index_line)>>
                            ELSE <<DiskOp("raise", <<>>, <<>>, <<>>)>>), {}))

\* project_context: the files named in include_files, read in order until
\* one of the relative_to(library_root) calls raises
project_context_plan(t, payload) ==
    LET library_root == resolve_user_library_root(t)
        vp == validate_path(library_root, payload.path, links)
        resolved_root == vp.value
        names == payload.include_files
        target(i) == JoinPath(resolved_root, names[i].s)
        exists(i) == Resolves(target(i), dirs) /\ Exists(Norm(target(i)))
        is_file(i) == Resolves(target(i), dirs) /\ IsFile(Norm(target(i)))
        skipped(i) == names[i].kind # "str" \/ (exists(i) /\ ~is_file(i))
        raises(i) == ~skipped(i) /\ ~IsPrefix(library_root, target(i))
        reached(i) == \A j \in 1..(i - 1) : ~raises(j)
        read == {i \in 1..Len(names) : reached(i) /\ ~skipped(i) /\ is_file(i)}
    IN IF payload.path.kind = "missing" THEN Err("MISSING_PATH")
       ELSE IF ~vp.ok THEN vp
       ELSE IF ~IsDir(resolved_root) THEN Err("FILE_NOT_FOUND")
       ELSE Ok([reads |-> {Norm(target(i)) : i \in read},
                raised |-> \E i \in 1..Len(names) : raises(i),
                files |-> {[path |-> RelativeTo(target(i), library_root),
                            content |-> Decode(fs[Norm(target(i))])] : i \in read}])

(***************************************************************************)
(* Specification SpecFiles: two tenants, each with one committed note,     *)
(* call the directory, path and transcript tools, one call at a time;      *)
(* every disk operation, the commit and the journal append may fail.       *)
(***************************************************************************)
P_b_md == <<"b", ".", "m", "d">>
P_dot == <<".">>
P_up_bob == <<".", ".", "/", "b", "o", "b", "/", "a", ".", "m", "d">>
P_up3_bob == <<".", ".", "/", ".", ".", "/", ".", ".", "/", "b", "o", "b", "/", "a", ".", "m", "d">>
P_abs_bob == <<"/", "u", "s", "e", "r", "s", "/", "b", "o", "b", "/", "a", ".", "m", "d">>

DirInputs == {Str(P_d), Str(P_a_md), Missing}
FromInputs == {Str(P_a_md), Str(P_d), Missing}
ToInputs == {Str(P_b_md), Str(P_up_bob)}
P_log == <<"a", "c", "t", "i", "v", "i", "t", "y", ".", "l", "o", "g">>

DeleteInputs == {Str(P_b_md), Str(P_d), Str(P_log), Missing}
FilenameInputs == {Missing, Str(P_up3_bob), Str(P_abs_bob), NonStr}
DateInputs == {Missing, Str(<<"x">>)}
TranscriptInputs == {Str(<<"x">>), Missing}
IncludeInputs == {<<Str(P_a_md)>>, <<Str(P_up_bob)>>, <<NonStr, Str(P_abs_bob)>>}
ContextInputs == {Str(P_dot), Missing}

\* entries in the tenant's transcripts index
IndexEntries(t) ==
    LET index_path == resolve_user_library_root(t) \o <<"transcripts", "index.md">>
    IN IF index_path \in DOMAIN fs
       THEN Cardinality({i \in 1..Len(fs[index_path]) : fs[index_path][i] = " - "})
       ELSE 0

create_directory ==
    \E path \in DirInputs, gitkeep \in BOOLEAN :
        LET plan == create_directory_plan(Caller, [path |-> path, gitkeep |-> gitkeep])
        IN /\ CanCall(Caller)
           /\ IF plan.ok THEN Accepted("create_directory", Caller, plan.value)
              ELSE Rejected("create_directory", Caller, plan.code)

move_path ==
    \E from_path \in FromInputs, to_path \in ToInputs, overwrite \in BOOLEAN :
        LET plan == move_path_plan(Caller, [from_path |-> from_path, to_path |-> to_path,
                                        overwrite |-> overwrite])
        IN /\ CanCall(Caller)
           /\ IF plan.ok THEN Accepted("move_path", Caller, plan.value)
              ELSE Rejected("move_path", Caller, plan.code)

copy_path ==
    \E from_path \in FromInputs, to_path \in ToInputs, overwrite \in BOOLEAN :
        LET plan == copy_path_plan(Caller, [from_path |-> from_path, to_path |-> to_path,
                                        overwrite |-> overwrite])
        IN /\ CanCall(Caller)
           /\ IF plan.ok THEN Accepted("copy_path", Caller, plan.value)
              ELSE Rejected("copy_path", Caller, plan.code)

delete_path ==
    \E path \in DeleteInputs, confirm \in BOOLEAN, recursive \in BOOLEAN :
        LET plan == delete_path_plan(Caller, [path |-> path, confirm |-> confirm,
                                          recursive |-> recursive])
            args == DeleteArgs(confirm, recursive,
                               validate_path(resolve_user_library_root(Caller), path, links))
        IN /\ CanCall(Caller)
           /\ req' = IF plan.ok
                     THEN [AcceptedReq("delete_path", Caller, plan.value)
                              EXCEPT !.args = args]
                     ELSE [RejectedReq("delete_path", Caller, plan.code)
                              EXCEPT !.args = args]
           /\ UNCHANGED <<fs, dirs, links, git, journal, call>>

ingest_transcript ==
    \E content \in TranscriptInputs, filename \in FilenameInputs,
       date \in DateInputs :
        LET plan == ingest_transcript_plan(Caller, [content |-> content,
                                                    filename |-> filename, date |-> date])
        IN /\ CanCall(Caller)
           /\ IndexEntries(Caller) < MaxIndex
           /\ IF plan.ok THEN Accepted("ingest_transcript", Caller, plan.value)
              ELSE Rejected("ingest_transcript", Caller, plan.code)

\* a read-only tool: the whole call is one step
project_context ==
    \E path \in ContextInputs, include_files \in IncludeInputs :
        LET plan == project_context_plan(Caller, [path |-> path,
                                                  include_files |-> include_files])
        IN /\ CanCall(Caller)
           /\ IF plan.ok
              THEN /\ req' = [IdleReq EXCEPT
                                 !.pc = "done", !.tool = "project_context", !.t = Caller,
                                 !.n = req.n + 1,
                                 !.code = IF plan.value.raised THEN "UNHANDLED" ELSE "OK",
                                 !.touched = plan.value.reads,
                                 !.response = IF plan.value.raised THEN {}
                                              ELSE plan.value.files,
                                 !.goal = Disk, !.pre = Snapshot(Caller)]
                   /\ DiskUnchanged
              ELSE Rejected("project_context", Caller, plan.code)

\* the state after each tenant has created a.md with create_markdown
InitFiles ==
    /\ fs = (resolve_user_library_root("ann") \o <<"a.md">> :> <<"a">>)
            @@ (resolve_user_library_root("bob") \o <<"a.md">> :> <<"b">>)
    /\ dirs = TenantRoots
    /\ links = {}
    /\ git = [t \in Tenants |->
                 _commit_markdown_change(_ensure_git_repo(GitAbsent), <<"a.md">>,
                                         "create_markdown")]
    /\ journal = [t \in Tenants |->
                     <<_build_activity_entry("create_markdown", <<"a.md">>,
                                             <<"create file">>, 1)>>]
    /\ req = IdleReq
    /\ call = NoCall

NextFiles ==
    \/ create_directory
    \/ move_path
    \/ copy_path
    \/ delete_path
    \/ delete_markdown
    \/ ingest_transcript
    \/ project_context
    \/ WriteStep
    \/ WriteFails
    \/ CommitStep
    \/ CommitFails
    \/ JournalStep
    \/ JournalFails
    \/ RollbackFileStep
    \/ RestoreHeadStep
    \/ Return

SpecFiles == InitFiles /\ [][NextFiles]_vars

(***************************************************************************)
(* Properties of the directory, path and transcript tools, checked under   *)
(* SpecFiles                                                               *)
(***************************************************************************)
\* the files of f at or below the directory root
FilesUnder(f, root) == [q \in Under(root, DOMAIN f) |-> f[q]]

Done(code) == req.pc = "done" /\ req.code = code

\* C2: after a call that failed, at whatever stage, every file holds its
\* pre-request content, HEAD resolves to the pre-request id and the journal
\* has its pre-request length.
C2_FailureLeavesNoTrace ==
    (req.pc = "done" /\ req.code # "OK") =>
        /\ fs = req.pre.fs
        /\ _resolve_git_head(git[req.t]) = req.pre.head
        /\ Len(journal[req.t]) = Len(req.pre.journal)

\* the call made exactly one commit, then appended exactly one journal entry
OneCommitThenOneEntry ==
    /\ Len(git[req.t].commits) = req.pre.ncommits + 1
    /\ Len(journal[req.t]) = Len(req.pre.journal) + 1
    /\ Front(journal[req.t]) = req.pre.journal
    /\ Last(journal[req.t]).commitSha = Len(git[req.t].commits)

\* while a call runs, the journal grows only after the commit store has
JournalAfterCommit ==
    (req.pc # "idle" /\ Len(journal[req.t]) > Len(req.pre.journal)) =>
        Len(git[req.t].commits) > req.pre.ncommits

\* C3 (as stated): a call that returns success and changed any file or
\* directory under the tenant root has made exactly one commit and appended
\* exactly one journal entry, the commit first.
C3_ChangeCommitsOnce ==
    /\ JournalAfterCommit
    /\ (/\ Done("OK")
        /\ \/ FilesUnder(fs, resolve_user_library_root(req.t))
                  # FilesUnder(req.pre.fs, resolve_user_library_root(req.t))
           \/ Under(resolve_user_library_root(req.t), dirs)
                  # Under(resolve_user_library_root(req.t), req.pre.dirs))
       => OneCommitThenOneEntry

\* C3 (amended): a call that returns success and changed any file under the
\* tenant root has made exactly one commit and appended exactly one journal
\* entry, the commit first.
C3_FileChangeCommitsOnce ==
    /\ JournalAfterCommit
    /\ (/\ Done("OK")
        /\ FilesUnder(fs, resolve_user_library_root(req.t))
               # FilesUnder(req.pre.fs, resolve_user_library_root(req.t)))
       => OneCommitThenOneEntry

C3_Witness ==
    /\ Done("OK")
    /\ req.tool = "ingest_transcript"
    /\ FilesUnder(fs, resolve_user_library_root(req.t))
           # FilesUnder(req.pre.fs, resolve_user_library_root(req.t))

\* C4: no call reads, writes or deletes a file outside the calling tenant's
\* root, whatever the caller puts in a path-like field.
C4_StaysInsideRoot ==
    \A p \in req.touched : IsPrefix(resolve_user_library_root(req.t), p)

\* C6: a call made by one tenant changes no file, no commit-store state and
\* no journal entry under another tenant's root.
C6_OtherTenantsUntouched ==
    req.pc # "idle" =>
        \A t \in Tenants \ {req.t} :
            /\ FilesUnder(fs, resolve_user_library_root(t))
                   = FilesUnder(req.pre.fs, resolve_user_library_root(t))
            /\ git[t] = req.pre.git[t]
            /\ journal[t] = req.pre.journals[t]

\* C10: while a call is writing (before any rollback), a reader of any file
\* finds either the file's pre-request state or its post-request state.
C10_ReaderSeesPreOrPost ==
    req.pc \in {"write", "commit", "journal"} =>
        \A p \in (DOMAIN fs) \cup (DOMAIN req.pre.fs) \cup (DOMAIN req.goal.fs) :
            FileAt(fs, p) \in {FileAt(req.pre.fs, p), FileAt(req.goal.fs, p)}


DeleteTools == {"delete_path", "delete_markdown"}

\* the delete request names something that existed when the call came in
TargetExisted ==
    /\ req.args.target # <<>>
    /\ req.args.target \in (DOMAIN req.pre.fs) \cup req.pre.dirs

\* everything at or below the target is as it was when the call came in
TargetUntouched ==
    /\ FilesUnder(fs, req.args.target) = FilesUnder(req.pre.fs, req.args.target)
    /\ Under(req.args.target, dirs) = Under(req.args.target, req.pre.dirs)

C15_JournalAppendOnly ==
    req.pc # "idle" =>
        \A t \in Tenants : IsPrefix(req.pre.journals[t], journal[t])
(***************************************************************************)
(* Specification SpecPath: validate_path applied to every short raw path   *)
(* against every placement of symbolic links under the root.               *)
(***************************************************************************)
PathChars == {"/", "\\", ".", "a", "l"}

RawStrings == UNION {[1..n -> PathChars] : n \in 0..MaxRawLen}

RawInputs == {Str(s) : s \in RawStrings} \cup {NonStr}

PathRoot == resolve_user_library_root("ann")

LinkCandidates == {PathRoot \o <<"l">>, PathRoot \o <<"a", "l">>, PathRoot \o <<"a">>}

InitPath ==
    /\ fs = EmptyFs
    /\ dirs = TenantRoots
    /\ links \in SUBSET LinkCandidates
    /\ git = [t \in Tenants |-> GitAbsent]
    /\ journal = [t \in Tenants |-> <<>>]
    /\ req = IdleReq
    /\ \E raw \in RawInputs : call = [fn |-> "pending", in |-> raw, out |-> Err("NONE")]

ValidatePathCall ==
    /\ call.fn = "pending"
    /\ call' = [fn |-> "validate_path", in |-> call.in,
                out |-> validate_path(PathRoot, call.in, links)]
    /\ UNCHANGED <<fs, dirs, links, git, journal, req>>

NextPath == ValidatePathCall

SpecPath == InitPath /\ [][NextPath]_vars

Validated == call.fn = "validate_path" /\ call.out.ok

\* the segments validate_path appended to the root
Appended == RelativeTo(call.out.value, PathRoot)

\* no '..' segment and no symbolic link at any component below the root
CleanBelowRoot ==
    /\ \A i \in 1..Len(Appended) : Appended[i] # ".."
    /\ \A n \in (Len(PathRoot) + 1)..Len(call.out.value) :
           SubSeq(call.out.value, 1, n) \notin links

\* C5 (as stated): for every caller-supplied path p, the empty path and
\* paths made only of '.' segments included, validate_path(R, p) fails or
\* returns a descendant of R (a path strictly below R) with no '..' segment
\* and no symlinked component.
C5_ReturnsDescendant ==
    Validated =>
        /\ IsPrefix(PathRoot, call.out.value)
        /\ Len(call.out.value) > Len(PathRoot)
        /\ CleanBelowRoot

\* C5 (amended): validate_path(R, p) fails, or returns R itself exactly when
\* p has no segment other than '.' and empty ones, or returns a path
\* strictly below R; in both cases with no '..' segment and no symlinked
\* component below R.
C5_ReturnsRootOrDescendant ==
    Validated =>
        /\ IsPrefix(PathRoot, call.out.value)
        /\ (call.out.value = PathRoot) <=>
               (PartsChars(ReplaceChar(call.in.s, "\\", "/")) = <<>>)
        /\ CleanBelowRoot

C5_Witness ==
    /\ Validated
    /\ Len(Appended) = 2
    /\ links # {}
    /\ \E i \in 1..Len(call.in.s) : call.in.s[i] = "\\"

(***************************************************************************)
(* Preview tools (src/app/mcp_markdown.py, src/app/mcp_files.py): each     *)
(* runs the checks and the in-memory operation of its mutating twin and    *)
(* returns what would change.  A preview makes no blocking call besides    *)
(* its reads, so it is one step; call holds the last preview response.     *)
(***************************************************************************)
PREVIEW_OPERATIONS == {"append", "prepend"} \cup SECTION_OPERATIONS

_apply_preview_operation(content, operation) ==
    IF operation.type \notin PREVIEW_OPERATIONS THEN Err("INVALID_OPERATION")
    ELSE IF operation.type \in SECTION_OPERATIONS
            /\ (~operation.target.some \/ operation.target.s = <<>>)
         THEN Err("MISSING_TARGET")
    ELSE IF operation.type = "append"
         THEN Ok(_join_with_newline(content, operation.content))
    ELSE IF operation.type = "prepend"
         THEN Ok(_join_with_newline(operation.content, content))
    ELSE _apply_section_operation(content, operation.type, operation.target.s,
                                  operation.content)

\* a preview's response: its code and the number of entries it lists (the
\* diff text itself is not kept)
Preview(fn, code, size) == [fn |-> fn, code |-> code, size |-> size]
IdlePreview == Preview("none", "none", 0)

preview_markdown_change_result(t, payload) ==
    LET chk == ExistingFileCheck(t, payload)
        current_content == Decode(fs[chk.value])
        updated == _apply_preview_operation(current_content, payload.operation)
    IN IF payload.path.kind = "missing" THEN Err("MISSING_PATH")
       ELSE IF payload.operation.kind = "missing" THEN Err("MISSING_OPERATION")
       ELSE IF ~chk.ok THEN chk
       ELSE IF ~updated.ok THEN updated
       ELSE Ok(updated.value)

\* one element of preview_bulk_changes' list
Change(path, action, operation, content) ==
    [path |-> path, action |-> action, operation |-> operation, content |-> content]

preview_change(t, change) ==
    LET vp == validate_path(resolve_user_library_root(t), change.path, links)
        resolved_path == vp.value
        current_content == IF IsFile(resolved_path) THEN Decode(fs[resolved_path]) ELSE <<>>
        written == _apply_write_operation(current_content, change.operation)
        edited == _apply_edit_operation(current_content, change.operation)
    IN IF change.path.kind = "missing" THEN Err("MISSING_FIELDS")
       ELSE IF change.action \notin {"create", "write", "edit", "delete"}
            THEN Err("INVALID_ACTION")
       ELSE IF ~vp.ok THEN vp
       ELSE IF ResolvedSuffix(change.path) \notin ALLOWED_MARKDOWN_EXTENSIONS
            THEN Err("NOT_MARKDOWN")
       ELSE IF Exists(resolved_path) /\ ~IsFile(resolved_path) THEN Err("INVALID_PATH")
       ELSE IF change.action = "create"
            THEN IF Exists(resolved_path) THEN Err("PATH_EXISTS")
                 ELSE IF change.content.kind # "str" THEN Err("MISSING_CONTENT")
                 ELSE Ok(change.content.s)
       ELSE IF ~Exists(resolved_path) THEN Err("FILE_NOT_FOUND")
       ELSE IF change.action = "delete" THEN Ok(<<>>)
       ELSE IF change.operation.kind = "missing" THEN Err("MISSING_OPERATION")
       ELSE IF change.action = "write"
            THEN written
       ELSE edited

RECURSIVE preview_bulk_changes_result(_, _)
preview_bulk_changes_result(t, changes) ==
    IF changes = <<>> THEN Ok(0)
    ELSE LET one == preview_change(t, Head(changes))
             rest == preview_bulk_changes_result(t, Tail(changes))
         IN IF ~one.ok THEN one
            ELSE IF ~rest.ok THEN rest
            ELSE Ok(1 + rest.value)

\* _build_path_mappings: one mapping per file at or below the source
_build_path_mappings(source) ==
    IF IsFile(source) THEN {source} ELSE Under(source, DOMAIN fs)

\* preview_move_path and preview_copy_path make the same checks
preview_two_path_result(t, payload) ==
    LET root == resolve_user_library_root(t)
        source == validate_path(root, payload.from_path, links)
        destination == validate_path(root, payload.to_path, links)
    IN IF payload.from_path.kind = "missing" \/ payload.to_path.kind = "missing"
       THEN Err("MISSING_PATH")
       ELSE IF ~source.ok THEN source
       ELSE IF ~destination.ok THEN destination
       ELSE IF ~Exists(source.value) THEN Err("FILE_NOT_FOUND")
       ELSE Ok(Cardinality(_build_path_mappings(source.value)))

preview_delete_path_result(t, payload) ==
    LET target == validate_path(resolve_user_library_root(t), payload.path, links)
    IN IF payload.path.kind = "missing" THEN Err("MISSING_PATH")
       ELSE IF ~target.ok THEN target
       ELSE IF ~Exists(target.value) THEN Err("FILE_NOT_FOUND")
       ELSE IF IsDir(target.value) /\ ~payload.recursive THEN Err("RECURSIVE_REQUIRED")
       ELSE Ok(Cardinality(_build_path_mappings(target.value)))

(***************************************************************************)
(* Specification SpecPreview: one tenant with a committed note and an      *)
(* empty directory; write_markdown and delete_markdown calls run step by   *)
(* step while previews are served between any two of their steps.          *)
(***************************************************************************)
PreviewPathInputs == {Str(P_a_md), Str(P_d), Missing}

PreviewOpInputs == {Op("append", <<"b">>), OpAt("replace_section", <<"b">>, <<"#">>),
                    OpAt("insert_after", <<"b">>, <<"x">>), Op("delete", <<>>)}

ChangesInputs ==
    {<<Change(Str(P_b_md), "create", MissingOp, Str(<<"x">>))>>,
     <<Change(Str(P_a_md), "write", Op("prepend", <<"b">>), Missing),
       Change(Str(P_a_md), "delete", MissingOp, Missing)>>,
     <<Change(Str(P_a_md), "edit", OpAt("replace_section", <<"b">>, <<"#">>), Missing),
       Change(Str(P_a_md), "create", MissingOp, Str(<<"x">>))>>,
     <<Change(Str(P_d), "delete", MissingOp, Missing)>>,
     <<Change(Str(P_a_md), "rename", MissingOp, Missing)>>}

preview_markdown_change_applies ==
    \E path \in PreviewPathInputs, operation \in PreviewOpInputs :
        LET payload == [path |-> path, operation |-> operation]
            r == preview_markdown_change_result(Caller, payload)
        IN /\ call' = Preview("preview_markdown_change", r.code, 0)
           /\ fs' = IF r.ok THEN _atomic_write(fs, ExistingFileCheck(Caller, payload).value,
                                               r.value)
                    ELSE fs
           /\ UNCHANGED <<dirs, links, git, journal, req>>

preview_markdown_change ==
    \E path \in PreviewPathInputs, operation \in PreviewOpInputs :
        LET r == preview_markdown_change_result(Caller, [path |-> path,
                                                        operation |-> operation])
        IN /\ call' = Preview("preview_markdown_change", r.code, 0)
           /\ UNCHANGED <<fs, dirs, links, git, journal, req>>

preview_bulk_changes ==
    \E changes \in ChangesInputs :
        LET r == preview_bulk_changes_result(Caller, changes)
        IN /\ call' = Preview("preview_bulk_changes", r.code, IF r.ok THEN r.value ELSE 0)
           /\ UNCHANGED <<fs, dirs, links, git, journal, req>>

preview_move_path ==
    \E from_path \in PreviewPathInputs, to_path \in {Str(P_b_md)} :
        LET r == preview_two_path_result(Caller, [from_path |-> from_path,
                                                 to_path |-> to_path])
        IN /\ call' = Preview("preview_move_path", r.code, IF r.ok THEN r.value ELSE 0)
           /\ UNCHANGED <<fs, dirs, links, git, journal, req>>

preview_copy_path ==
    \E from_path \in {Str(P_a_md)}, to_path \in PreviewPathInputs :
        LET r == preview_two_path_result(Caller, [from_path |-> from_path,
                                                 to_path |-> to_path])
        IN /\ call' = Preview("preview_copy_path", r.code, IF r.ok THEN r.value ELSE 0)
           /\ UNCHANGED <<fs, dirs, links, git, journal, req>>

preview_delete_path ==
    \E path \in PreviewPathInputs, recursive \in BOOLEAN :
        LET r == preview_delete_path_result(Caller, [path |-> path,
                                                    recursive |-> recursive])
        IN /\ call' = Preview("preview_delete_path", r.code, IF r.ok THEN r.value ELSE 0)
           /\ UNCHANGED <<fs, dirs, links, git, journal, req>>

InitPreview ==
    /\ fs = (resolve_user_library_root(Caller) \o <<"a.md">> :> <<"#", LF, "a">>)
    /\ dirs = TenantRoots \cup {resolve_user_library_root(Caller) \o <<"d">>}
    /\ links = {}
    /\ git = [t \in Tenants |->
                 IF t = Caller
                 THEN _commit_markdown_change(_ensure_git_repo(GitAbsent), <<"a.md">>,
                                              "create_markdown")
                 ELSE GitAbsent]
    /\ journal = [t \in Tenants |->
                     IF t = Caller
                     THEN <<_build_activity_entry("create_markdown", <<"a.md">>,
                                                  <<"create file">>, 1)>>
                     ELSE <<>>]
    /\ req = IdleReq
    /\ call = IdlePreview

NextPreview ==
    \/ preview_markdown_change
    \/ preview_bulk_changes
    \/ preview_move_path
    \/ preview_copy_path
    \/ preview_delete_path
    \/ write_markdown
    \/ delete_markdown
    \/ WriteStep
    \/ WriteFails
    \/ CommitStep
    \/ CommitFails
    \/ JournalStep
    \/ JournalFails
    \/ RollbackFileStep
    \/ RestoreHeadStep
    \/ Return

SpecPreview == InitPreview /\ [][NextPreview]_vars

\* a preview was served in this step
PreviewStep == call' # call

\* C13: no step of a preview, whether it succeeds or fails and whatever
\* else is in flight, changes a file or directory, the commit store or the
\* journal.
C13_PreviewsChangeNothing ==
    [][PreviewStep => /\ fs' = fs
                      /\ dirs' = dirs
                      /\ git' = git
                      /\ journal' = journal]_vars

\* a preview that failed and one that succeeded, each served while a
\* mutation is between its write and its commit
C13_Witness ==
    /\ req.pc = "commit"
    /\ req.tool = "write_markdown"
    /\ call.fn \in {"preview_markdown_change", "preview_bulk_changes"}
    /\ call.code \in {"OK", "SECTION_NOT_FOUND"}
    /\ fs # req.pre.fs

(***************************************************************************)
(* Schema bootstrapper and onboarding state (src/app/library_schema.py,    *)
(* src/app/mcp_onboarding.py).  The onboarding state file holds the parsed *)
(* JSON object: json.dumps and json.loads of an object of strings, None    *)
(* and lists give the object back.  Kept of the object: starter_topics,    *)
(* completed_at, created_at_utc, updated_at_utc, active_topic,             *)
(* topic_queue, recommended_next_topic, topic_history and, per topic,      *)
(* status, phase, started_at_utc, last_interview_at_utc, completed_at_utc. *)
(* A timestamp is the clock reading in whole seconds (_utc_now_iso drops   *)
(* the microseconds).                                                      *)
(***************************************************************************)
TOPIC_ORDER == <<"finances", "fitness", "relationships", "career", "whyfinder">>

Topics == {TOPIC_ORDER[i] : i \in DOMAIN TOPIC_ORDER}

TOPIC_STATUS_VALUES == {"not_started", "in_progress", "complete"}

TOPIC_PHASE_VALUES == {"not_started", "opening", "goals_tasks", "followup", "complete"}

\* None where a timestamp, a topic or a phase is expected
NoTime == -1
NoTopic == "None"
NoPhase == "None"

_state_path(library_root) == library_root \o <<".braindrive", "onboarding_state.json">>

_schema_version_path(library_root) ==
    library_root \o <<".braindrive", "schema-version.json">>

topic_file_path(library_root, topic, filename) ==
    library_root \o <<"life", topic, filename>>

next_incomplete_topic_first(state) == TOPIC_ORDER[1]

\* next_incomplete_topic: the first topic of TOPIC_ORDER not yet complete
next_incomplete_topic(state) ==
    LET open == {i \in DOMAIN TOPIC_ORDER :
                    state.starter_topics[TOPIC_ORDER[i]] # "complete"}
    IN IF open = {} THEN NoTopic
       ELSE TOPIC_ORDER[CHOOSE i \in open : \A j \in open : i <= j]

_default_topic_progress ==
    [topic \in Topics |->
        [status |-> "not_started", phase |-> "not_started",
         started_at_utc |-> NoTime, last_interview_at_utc |-> NoTime,
         completed_at_utc |-> NoTime]]

default_onboarding_state(now) ==
    [starter_topics |-> [topic \in Topics |-> "not_started"],
     completed_at |-> [topic \in Topics |-> NoTime],
     created_at_utc |-> now,
     updated_at_utc |-> now,
     active_topic |-> NoTopic,
     topic_queue |-> TOPIC_ORDER,
     recommended_next_topic |-> TOPIC_ORDER[1],
     topic_progress |-> _default_topic_progress,
     topic_history |-> <<>>]

\* the closing loop of read_onboarding_state and persist_onboarding_state
\* over completed_at: a topic that is not complete has no entry
CompletedOf(progress, completed, fallback) ==
    [topic \in Topics |->
        IF progress[topic].status # "complete" THEN NoTime
        ELSE IF progress[topic].completed_at_utc # NoTime
             THEN progress[topic].completed_at_utc
        ELSE IF completed[topic] # NoTime THEN completed[topic]
        ELSE fallback]

\* a local variable: value is computed once and handed to Rest
Local(value, Rest(_)) == CHOOSE r \in {Rest(x) : x \in {value}} : TRUE

\* read_onboarding_state: the file's object with starter_topics following the
\* status of topic_progress, or the default object when there is no file
read_onboarding_state(f, library_root, now) ==
    IF _state_path(library_root) \notin DOMAIN f THEN default_onboarding_state(now)
    ELSE Local(f[_state_path(library_root)], LAMBDA raw :
         Local([raw EXCEPT
                  !.starter_topics =
                      [topic \in Topics |-> raw.topic_progress[topic].status],
                  !.completed_at =
                      [topic \in Topics |->
                          IF raw.topic_progress[topic].status # "complete"
                          THEN NoTime
                          ELSE IF raw.completed_at[topic] # NoTime
                               THEN raw.completed_at[topic]
                          ELSE raw.topic_progress[topic].completed_at_utc]],
               LAMBDA normalized :
             [normalized EXCEPT
                !.recommended_next_topic =
                    IF @ = NoTopic THEN next_incomplete_topic(normalized) ELSE @,
                !.topic_queue = IF @ = <<>> THEN TOPIC_ORDER ELSE @]))

\* value if value is not None, else what the file had
KeepUnlessGiven(onDisk, value) == IF value # NoTime THEN value ELSE onDisk

HISTORY_LIMIT == 200

LastEntries_oldest(history) ==
    IF Len(history) <= HISTORY_LIMIT THEN history
    ELSE SubSeq(history, 1, HISTORY_LIMIT)

\* history[-200:]
LastEntries(history) ==
    IF Len(history) <= HISTORY_LIMIT THEN history
    ELSE SubSeq(history, Len(history) - HISTORY_LIMIT + 1, Len(history))

\* the object persist_onboarding_state builds from the file's object and the
\* incoming one, before it compares it with the file
PersistedState(f, library_root, state, now) ==
    Local(read_onboarding_state(f, library_root, now), LAMBDA onDisk :
    Local([topic \in Topics |->
              LET old == onDisk.topic_progress[topic]
                  new == state.topic_progress[topic]
              IN [status |-> new.status,
                  phase |-> new.phase,
                  started_at_utc |->
                      KeepUnlessGiven(old.started_at_utc, new.started_at_utc),
                  last_interview_at_utc |->
                      KeepUnlessGiven(old.last_interview_at_utc,
                                      new.last_interview_at_utc),
                  completed_at_utc |->
                      IF new.status # "complete" THEN NoTime
                      ELSE KeepUnlessGiven(old.completed_at_utc,
                                           new.completed_at_utc)]],
          LAMBDA progress :
    Local([starter_topics |-> [topic \in Topics |-> progress[topic].status],
           completed_at |-> CompletedOf(progress, state.completed_at, now),
           created_at_utc |->
               KeepUnlessGiven(onDisk.created_at_utc, state.created_at_utc),
           updated_at_utc |-> now,
           active_topic |-> state.active_topic,
           topic_queue |->
               IF state.topic_queue # <<>> THEN state.topic_queue
               ELSE onDisk.topic_queue,
           recommended_next_topic |-> state.recommended_next_topic,
           topic_progress |-> progress,
           topic_history |-> LastEntries(state.topic_history)],
          LAMBDA merged :
        [merged EXCEPT
           !.recommended_next_topic =
               IF @ = NoTopic THEN next_incomplete_topic(merged) ELSE @])))

\* a disk together with the relative paths a handler has changed so far
Work(f, ds, changed) == [fs |-> f, dirs |-> ds, changed |-> changed]

\* persist_onboarding_state: written only when it differs from the file
persist_onboarding_state(w, library_root, state, now) ==
    Local(_state_path(library_root), LAMBDA path :
    Local(PersistedState(w.fs, library_root, state, now), LAMBDA normalized :
        IF path \in DOMAIN w.fs /\ w.fs[path] = normalized
        THEN [w EXCEPT !.dirs = MkdirParents(Parent(path), @)]
        ELSE Work(WriteFile(w.fs, path, normalized),
                  MkdirParents(Parent(path), w.dirs),
                  w.changed \cup {RelativeTo(path, library_root)})))

\* the directories and seed files of the canonical tree that the onboarding
\* tools read or write; the other entries of the lists are made the same way
REQUIRED_DIRECTORIES == {<<".braindrive">>, <<"me">>, <<"life">>}

REQUIRED_TEXT_FILES == {<<"AGENT.md">>, <<ACTIVITY_LOG_FILENAME>>, <<"me", "profile.md">>}

TopicFileNames == {"AGENT.md", "interview.md", "goals.md", "action-plan.md"}

\* a seed text: a heading that ends with a newline
SeedText == <<"# seed", LF>>

\* the text a missing seed file is written with: "" for the journal file
SeedTextOf(library_root, p) ==
    IF p = _activity_log_path(library_root) THEN <<>> ELSE SeedText

\* a block appended to a topic file: its heading line, ending with a newline
Block(heading) == <<heading, LF>>

SCHEMA_VERSION == <<"2026-02-17-v2">>

\* the files _write_text_if_missing is called for, in the tenant's tree
SeedFiles(library_root) ==
    {library_root \o p : p \in REQUIRED_TEXT_FILES}
        \cup {topic_file_path(library_root, topic, name) :
                 topic \in Topics, name \in TopicFileNames}

\* the directories _migrate_legacy_agents looks into, of those the
\* onboarding tools read or write
AGENT_MIGRATION_DIRECTORIES ==
    {<<>>, <<"life">>} \cup {<<"life", topic>> : topic \in Topics}

\* _migrate_legacy_agents: where a directory holds agents.md and no AGENT.md,
\* AGENT.md is written with the text read from agents.md
_migrate_legacy_agents(w, library_root) ==
    Local({library_root \o d : d \in AGENT_MIGRATION_DIRECTORIES}, LAMBDA directories :
    Local({d \in directories :
              /\ d \in w.dirs
              /\ d \o <<"AGENT.md">> \notin DOMAIN w.fs
              /\ d \o <<"AGENT.md">> \notin w.dirs
              /\ d \o <<"agents.md">> \in DOMAIN w.fs},
          LAMBDA legacy :
        Work([p \in (DOMAIN w.fs) \cup {d \o <<"AGENT.md">> : d \in legacy} |->
                 IF p \in DOMAIN w.fs THEN w.fs[p]
                 ELSE Encode(Decode(w.fs[Parent(p) \o <<"agents.md">>]))],
             w.dirs,
             w.changed \cup {RelativeTo(d \o <<"AGENT.md">>, library_root) :
                                d \in legacy})))

\* ensure_scoped_library_structure after its legacy migration: missing
\* directories are made, missing seed files written, the schema version
\* stamped when it differs, and the onboarding state read and persisted
SeededStructure(w, library_root, now) ==
    Local({library_root \o d : d \in REQUIRED_DIRECTORIES}
              \cup {library_root \o <<"life", topic>> : topic \in Topics},
          LAMBDA wantDirs :
    Local({d \in wantDirs : d \notin w.dirs /\ d \notin DOMAIN w.fs},
          LAMBDA newDirs :
    Local(UNION {MkdirParents(d, w.dirs) : d \in wantDirs}, LAMBDA dirs1 :
    Local({p \in SeedFiles(library_root) : p \notin DOMAIN w.fs /\ p \notin dirs1},
          LAMBDA newFiles :
    Local([p \in (DOMAIN w.fs) \cup newFiles |->
              IF p \in newFiles THEN Encode(SeedTextOf(library_root, p))
              ELSE w.fs[p]],
          LAMBDA fs1 :
    Local(_schema_version_path(library_root), LAMBDA version_path :
    Local(version_path \in DOMAIN fs1 /\ fs1[version_path] = SCHEMA_VERSION,
          LAMBDA stamped :
    Local(IF stamped THEN fs1 ELSE WriteFile(fs1, version_path, SCHEMA_VERSION),
          LAMBDA fs2 :
    Local(Work(fs2, dirs1,
               w.changed
                   \cup {RelativeTo(p, library_root) : p \in newDirs \cup newFiles}
                   \cup (IF stamped THEN {}
                         ELSE {RelativeTo(version_path, library_root)})),
          LAMBDA w2 :
    Local(read_onboarding_state(fs2, library_root, now), LAMBDA state :
        persist_onboarding_state(w2, library_root, state, now)))))))))))

\* ensure_scoped_library_structure: the legacy migration runs once the
\* required directories are made and before the seed files are written (a
\* directory that is only made by this call holds no agents.md)
ensure_scoped_library_structure(w, library_root, now) ==
    SeededStructure(_migrate_legacy_agents(w, library_root), library_root, now)

\* the directory BRAINDRIVE_LIBRARY_BASE_TEMPLATE_PATH names when a base
\* template is configured
TemplateRoot == <<"template">>

\* _resolve_template_root: the configured directory, or none (the service
\* ships no Base_Library of its own); a template is configured exactly when
\* its directory is on disk
_resolve_template_root(ds) == IF TemplateRoot \in ds THEN <<TemplateRoot>> ELSE <<>>

_copy_template_overwriting(w, source_root, destination_root) ==
    Local({p \in DOMAIN w.fs : IsPrefix(source_root, p) /\ p # source_root},
          LAMBDA sources :
    Local(UNION ({w.dirs} \cup
                 {MkdirParents(destination_root \o RelativeTo(d, source_root), w.dirs) :
                     d \in {q \in w.dirs : IsPrefix(source_root, q)}}),
          LAMBDA dirs1 :
        Work([q \in (DOMAIN w.fs) \cup
                     {destination_root \o RelativeTo(p, source_root) : p \in sources} |->
                 IF source_root \o RelativeTo(q, destination_root) \in sources
                    /\ IsPrefix(destination_root, q)
                 THEN w.fs[source_root \o RelativeTo(q, destination_root)]
                 ELSE w.fs[q]],
             UNION ({dirs1} \cup
                    {MkdirParents(Parent(destination_root \o RelativeTo(p, source_root)),
                                  dirs1) : p \in sources}),
             w.changed \cup {RelativeTo(p, source_root) : p \in sources})))

\* _copy_template_idempotent: the directories of the template are made, and
\* each of its files is copied byte for byte unless the target exists
_copy_template_idempotent(w, source_root, destination_root) ==
    Local({p \in DOMAIN w.fs : IsPrefix(source_root, p) /\ p # source_root},
          LAMBDA sources :
    Local(UNION ({w.dirs} \cup
                 {MkdirParents(destination_root \o RelativeTo(d, source_root), w.dirs) :
                     d \in {q \in w.dirs : IsPrefix(source_root, q)}}),
          LAMBDA dirs1 :
    Local({p \in sources :
              /\ destination_root \o RelativeTo(p, source_root) \notin DOMAIN w.fs
              /\ destination_root \o RelativeTo(p, source_root) \notin dirs1},
          LAMBDA copied :
        Work([q \in (DOMAIN w.fs) \cup
                     {destination_root \o RelativeTo(p, source_root) : p \in copied} |->
                 IF q \in DOMAIN w.fs THEN w.fs[q]
                 ELSE w.fs[source_root \o RelativeTo(q, destination_root)]],
             UNION ({dirs1} \cup
                    {MkdirParents(Parent(destination_root \o RelativeTo(p, source_root)),
                                  dirs1) : p \in copied}),
             w.changed \cup {RelativeTo(p, source_root) : p \in copied}))))

\* _bootstrap_user_library: the template projection, when a template is
\* configured, and then the schema bootstrapper
_bootstrap_user_library(w, library_root, now) ==
    Local(_resolve_template_root(w.dirs), LAMBDA template_root :
        ensure_scoped_library_structure(
            IF template_root = <<>> THEN w
            ELSE _copy_template_idempotent(w, template_root[1], library_root),
            library_root, now))

\* _append_topic_history
_append_topic_history(state, topic, event) ==
    [state EXCEPT !.topic_history = LastEntries(Append(@, <<event, topic>>))]

\* _refresh_onboarding_summary_fields
_refresh_onboarding_summary_fields(state, now) ==
    Local([topic \in Topics |-> state.topic_progress[topic].status],
          LAMBDA starter :
    Local([state EXCEPT
             !.starter_topics = starter,
             !.completed_at =
                 CompletedOf(state.topic_progress, state.completed_at, now)],
          LAMBDA synced :
        [synced EXCEPT
           !.recommended_next_topic = next_incomplete_topic(synced),
           !.topic_queue =
               SelectSeq(TOPIC_ORDER, LAMBDA topic : starter[topic] # "complete"),
           !.updated_at_utc = now]))

\* _validate_topic, for a topic given as a lower-case string, a value of
\* another type (NonStr) or not given at all (Missing)
_validate_topic(value) ==
    IF value.kind = "missing" THEN Err("MISSING_TOPIC")
    ELSE IF value.kind # "str" THEN Err("INVALID_TYPE")
    ELSE IF value.s \notin Topics THEN Err("INVALID_TOPIC")
    ELSE Ok(value.s)

StartedState_restamped(state, topic, now) ==
    LET current_status == state.starter_topics[topic]
        progressed ==
            IF current_status = "complete" THEN state
            ELSE [(IF current_status # "in_progress"
                   THEN _append_topic_history(state, topic, "start_onboarding")
                   ELSE state)
                  EXCEPT !.starter_topics[topic] = "in_progress",
                         !.topic_progress[topic].status = "in_progress",
                         !.topic_progress[topic].phase = "opening",
                         !.topic_progress[topic].started_at_utc =
                             now]
    IN Local([progressed EXCEPT
                !.topic_progress[topic].last_interview_at_utc = now,
                !.active_topic = topic],
             LAMBDA touched : _refresh_onboarding_summary_fields(touched, now))

\* start_topic_onboarding, lines 314-331: the state it persists
StartedState(state, topic, now) ==
    LET current_status == state.starter_topics[topic]
        progressed ==
            IF current_status = "complete" THEN state
            ELSE [(IF current_status # "in_progress"
                   THEN _append_topic_history(state, topic, "start_onboarding")
                   ELSE state)
                  EXCEPT !.starter_topics[topic] = "in_progress",
                         !.topic_progress[topic].status = "in_progress",
                         !.topic_progress[topic].phase = "opening",
                         !.topic_progress[topic].started_at_utc =
                             IF @ # NoTime THEN @ ELSE now]
    IN Local([progressed EXCEPT
                !.topic_progress[topic].last_interview_at_utc = now,
                !.active_topic = topic],
             LAMBDA touched : _refresh_onboarding_summary_fields(touched, now))

\* save_topic_onboarding_context, lines 541-568: the state it persists
SavedState(state, topic, normalized_phase, now) ==
    LET previous_status == state.starter_topics[topic]
        progressed ==
            IF previous_status = "complete" THEN state
            ELSE [(IF previous_status # "in_progress"
                   THEN _append_topic_history(state, topic,
                                              "context_status_progressed")
                   ELSE state)
                  EXCEPT !.starter_topics[topic] = "in_progress",
                         !.topic_progress[topic].status = "in_progress"]
        phased == [progressed EXCEPT
                     !.topic_progress[topic].phase =
                         IF normalized_phase # NoPhase THEN normalized_phase ELSE @,
                     !.topic_progress[topic].last_interview_at_utc = now,
                     !.active_topic = topic]
    IN Local(_append_topic_history(phased, topic, "approved_context_saved"),
             LAMBDA touched : _refresh_onboarding_summary_fields(touched, now))

CompletedState_unstamped(state, topic, now) ==
    Local(_append_topic_history(
        [state EXCEPT !.starter_topics[topic] = "complete",
                      !.completed_at[topic] = now,
                      !.topic_progress[topic].status = "complete",
                      !.topic_progress[topic].phase = "complete",
                      !.topic_progress[topic].last_interview_at_utc = now,
                      !.active_topic = NoTopic],
        topic, "complete_onboarding"),
          LAMBDA touched : _refresh_onboarding_summary_fields(touched, now))

\* complete_topic_onboarding, lines 650-675: the state it persists
CompletedState(state, topic, now) ==
    Local(_append_topic_history(
        [state EXCEPT !.starter_topics[topic] = "complete",
                      !.completed_at[topic] = now,
                      !.topic_progress[topic].status = "complete",
                      !.topic_progress[topic].phase = "complete",
                      !.topic_progress[topic].completed_at_utc = now,
                      !.topic_progress[topic].last_interview_at_utc = now,
                      !.active_topic = NoTopic],
        topic, "complete_onboarding"),
          LAMBDA touched : _refresh_onboarding_summary_fields(touched, now))

\* a JSON boolean in a payload
Bool(b) == [kind |-> "bool", b |-> b]

\* _upsert_current_goals_markdown with the entries of the context: a bullet
\* already in the file is not added again (where in the file the bullet goes
\* is not kept)
_upsert_current_goals_markdown(existing_markdown, entry) ==
    IF \E i \in DOMAIN existing_markdown : existing_markdown[i] = entry
    THEN existing_markdown
    ELSE existing_markdown \o <<entry, LF>>

save_topic_onboarding_context_check_unapproved(payload) ==
    LET topic == _validate_topic(payload.topic)
    IN IF "missing" \in {payload.topic.kind, payload.context.kind, payload.approved.kind}
       THEN Err("MISSING_FIELDS")
       ELSE IF ~topic.ok THEN topic
       ELSE IF payload.context.kind # "str" \/ Strip(payload.context.s) = <<>>
            THEN Err("INVALID_TYPE")
       ELSE IF payload.approved.kind # "bool" THEN Err("INVALID_TYPE")
       ELSE IF payload.phase # NoPhase /\ payload.phase \notin TOPIC_PHASE_VALUES
            THEN Err("INVALID_TYPE")
       ELSE topic

\* save_topic_onboarding_context, lines 383-478: the checks before any write,
\* for a payload of topic, context, approved and phase
save_topic_onboarding_context_check(payload) ==
    LET topic == _validate_topic(payload.topic)
    IN IF "missing" \in {payload.topic.kind, payload.context.kind, payload.approved.kind}
       THEN Err("MISSING_FIELDS")
       ELSE IF ~topic.ok THEN topic
       ELSE IF payload.context.kind # "str" \/ Strip(payload.context.s) = <<>>
            THEN Err("INVALID_TYPE")
       ELSE IF payload.approved.kind # "bool" THEN Err("INVALID_TYPE")
       ELSE IF ~payload.approved.b THEN Err("APPROVAL_REQUIRED")
       ELSE IF payload.phase # NoPhase /\ payload.phase \notin TOPIC_PHASE_VALUES
            THEN Err("INVALID_TYPE")
       ELSE topic

\* what is in a file of the working tree: for the journal file, the text it
\* was made with followed by the journal lines appended to it
WorkingText(f, j, library_root, p) ==
    IF library_root \o p = _activity_log_path(library_root)
    THEN <<f[library_root \o p], j>>
    ELSE f[library_root \o p]

\* worktree.stage(paths): a path that is a file enters the index with the
\* content it has on disk, a path that is gone leaves the index, and a
\* directory is passed over
Staged(index, f, j, library_root, paths) ==
    LET files == {p \in paths : library_root \o p \in DOMAIN f}
        kept == {p \in DOMAIN index : p \notin paths}
    IN [p \in kept \cup files |->
           IF p \in files THEN WorkingText(f, j, library_root, p) ELSE index[p]]

\* _commit_mutation: nothing is committed or journaled when no path changed
\* (a commit or a journal append that raises is not followed here: the files
\* are written by then and the handler has no rollback)
_commit_mutation(f, library_root, g, j, changed_paths, operation, target_path, summary) ==
    IF changed_paths = {} THEN [git |-> g, journal |-> j, commit_sha |-> NoSha]
    ELSE Local([_ensure_git_repo(g) EXCEPT
                   !.index = Staged(@, f, j, library_root, changed_paths)],
               LAMBDA repo :
             [git |-> _commit_markdown_changes(repo, changed_paths, operation,
                                               target_path),
              journal |-> _append_activity_log(
                              j, _build_activity_entry(operation, target_path,
                                                       summary, NewSha(repo))),
              commit_sha |-> NewSha(repo)])

\* the clock and the last onboarding call: its payload and what it returned
OnboardCall(now, fn, payload, code, topic, status, phase, next_topic, changed, sha) ==
    [now |-> now, fn |-> fn, payload |-> payload, code |-> code, topic |-> topic,
     status |-> status, phase |-> phase, next_topic |-> next_topic,
     changed |-> changed, commitSha |-> sha]

OnboardError(fn, payload, code) ==
    OnboardCall(call.now, fn, payload, code, NoTopic, "none", NoPhase, NoTopic,
                {}, NoSha)

SavePayload(topic, context, approved, phase) ==
    [topic |-> topic, context |-> context, approved |-> approved, phase |-> phase]

StartInputs == {Str("finances"), Str("fitness"), Str("taxes"), Missing}

SaveInputs ==
    {SavePayload(Str("finances"), Str(<<"c">>), Bool(TRUE), NoPhase),
     SavePayload(Str("finances"), Str(<<"c">>), Bool(TRUE), "goals_tasks"),
     SavePayload(Str("fitness"), Str(<<"c">>), Bool(TRUE), "complete"),
     SavePayload(Str("finances"), Str(<<"c">>), Bool(FALSE), NoPhase),
     SavePayload(Str("fitness"), Str(<<"c">>), Missing, NoPhase),
     SavePayload(Str("finances"), Str(<<"c">>), NonStr, NoPhase),
     SavePayload(Str("finances"), Str(<<" ">>), Bool(TRUE), NoPhase),
     SavePayload(Str("taxes"), Str(<<"c">>), Bool(FALSE), NoPhase),
     SavePayload(Str("finances"), Str(<<"c">>), Bool(TRUE), "bogus")}

CompleteInputs ==
    {[topic |-> Str(topic), summary |-> summary] :
        topic \in {"finances", "fitness", "taxes"},
        summary \in {Missing, Str(<<"s">>)}}

OnboardRoot == resolve_user_library_root(Caller)

bootstrap_user_library ==
    \E w \in {_bootstrap_user_library(Work(fs, dirs, {}), OnboardRoot, call.now)} :
    \E m \in {_commit_mutation(w.fs, OnboardRoot, git[Caller], journal[Caller], w.changed,
                               "bootstrap_user_library",
                               <<".braindrive", "onboarding_state.json">>,
                               <<"bootstrap user library">>)} :
        /\ CanCall(Caller)
        /\ fs' = w.fs
        /\ dirs' = w.dirs
        /\ git' = [git EXCEPT ![Caller] = m.git]
        /\ journal' = [journal EXCEPT ![Caller] = m.journal]
        /\ req' = [req EXCEPT !.n = @ + 1]
        /\ call' = OnboardCall(call.now, "bootstrap_user_library", <<>>, "OK",
                               NoTopic, "none", NoPhase, NoTopic, w.changed,
                               m.commit_sha)
        /\ UNCHANGED links

start_topic_onboarding ==
    \E value \in StartInputs :
    \E chk \in {_validate_topic(value)} :
        /\ CanCall(Caller)
        /\ req' = [req EXCEPT !.n = @ + 1]
        /\ UNCHANGED links
        /\ IF ~chk.ok
           THEN /\ call' = OnboardError("start_topic_onboarding", value, chk.code)
                /\ UNCHANGED <<fs, dirs, git, journal>>
           ELSE \E topic \in {chk.value}, now \in {call.now} :
                \E w0 \in {_bootstrap_user_library(Work(fs, dirs, {}), OnboardRoot,
                                                   now)} :
                \E before \in {read_onboarding_state(w0.fs, OnboardRoot, now)} :
                \E state \in {StartedState(before, topic, now)} :
                \E w \in {persist_onboarding_state(w0, OnboardRoot, state, now)} :
                \E m \in {_commit_mutation(w.fs, OnboardRoot, git[Caller], journal[Caller], w.changed,
                                           "start_topic_onboarding",
                                           <<"life", topic, "interview.md">>,
                                           <<"start topic onboarding", topic>>)} :
                \E after \in {read_onboarding_state(w.fs, OnboardRoot, now)} :
                    /\ fs' = w.fs
                    /\ dirs' = w.dirs
                    /\ git' = [git EXCEPT ![Caller] = m.git]
                    /\ journal' = [journal EXCEPT ![Caller] = m.journal]
                    /\ call' = OnboardCall(now, "start_topic_onboarding", value,
                                           "OK", topic, after.starter_topics[topic],
                                           after.topic_progress[topic].phase,
                                           next_incomplete_topic(after),
                                           w.changed, m.commit_sha)

\* save_topic_onboarding_context, lines 483-539: the blocks appended to the
\* topic's files (the stamp in a block's heading is not kept)
SavedFiles(f, library_root, topic, normalized_phase, context_text) ==
    Local(topic_file_path(library_root, topic, "interview.md"),
          LAMBDA interview_path :
    Local(topic_file_path(library_root, topic, "AGENT.md"), LAMBDA agent_path :
    Local(topic_file_path(library_root, topic, "agents.md"),
          LAMBDA legacy_agent_path :
    Local(topic_file_path(library_root, topic, "goals.md"), LAMBDA goals_path :
    Local(topic_file_path(library_root, topic, "action-plan.md"),
          LAMBDA action_plan_path :
    Local(_join_with_newline(Decode(f[agent_path]),
                             Block("## Approved User Context")),
          LAMBDA agent_updated :
    Local(_atomic_write(
              _atomic_write(f, interview_path,
                  _join_with_newline(Decode(f[interview_path]),
                                     Block("## Approved Context"))),
              agent_path, agent_updated),
          LAMBDA fs2 :
    Local(IF legacy_agent_path \in DOMAIN fs2
          THEN _atomic_write(fs2, legacy_agent_path, agent_updated)
          ELSE fs2,
          LAMBDA fs3 :
        [fs |-> IF normalized_phase # "goals_tasks" THEN fs3
                ELSE _atomic_write(
                         _atomic_write(fs3, goals_path,
                             _join_with_newline(
                                 _upsert_current_goals_markdown(
                                     Decode(fs3[goals_path]),
                                     Concat(<<"- [ ] ">> \o context_text)),
                                 Block("## Approved Goals Context"))),
                         action_plan_path,
                         _join_with_newline(
                             Decode(fs3[action_plan_path]),
                             Block("## Approved Onboarding Goals/Tasks Context"))),
         written |-> {interview_path, agent_path}
                         \cup (IF legacy_agent_path \in DOMAIN fs2
                               THEN {legacy_agent_path} ELSE {})
                         \cup (IF normalized_phase = "goals_tasks"
                               THEN {goals_path, action_plan_path} ELSE {})]))))))))

save_topic_onboarding_context ==
    \E payload \in SaveInputs :
    \E chk \in {save_topic_onboarding_context_check(payload)} :
        /\ CanCall(Caller)
        /\ req' = [req EXCEPT !.n = @ + 1]
        /\ UNCHANGED links
        /\ IF ~chk.ok
           THEN /\ call' = OnboardError("save_topic_onboarding_context", payload,
                                        chk.code)
                /\ UNCHANGED <<fs, dirs, git, journal>>
           ELSE \E topic \in {chk.value}, now \in {call.now} :
                \E w0 \in {_bootstrap_user_library(Work(fs, dirs, {}), OnboardRoot,
                                                   now)} :
                \E saved \in {SavedFiles(w0.fs, OnboardRoot, topic, payload.phase,
                                         Strip(payload.context.s))} :
                \E w1 \in {Work(saved.fs, w0.dirs,
                                w0.changed \cup {RelativeTo(p, OnboardRoot) :
                                                    p \in saved.written})} :
                \E before \in {read_onboarding_state(w1.fs, OnboardRoot, now)} :
                \E state \in {SavedState(before, topic, payload.phase, now)} :
                \E w \in {persist_onboarding_state(w1, OnboardRoot, state, now)} :
                \E m \in {_commit_mutation(w.fs, OnboardRoot, git[Caller], journal[Caller], w.changed,
                                           "save_topic_onboarding_context",
                                           <<"life", topic, "interview.md">>,
                                           <<"save onboarding context", topic>>)} :
                    /\ fs' = w.fs
                    /\ dirs' = w.dirs
                    /\ git' = [git EXCEPT ![Caller] = m.git]
                    /\ journal' = [journal EXCEPT ![Caller] = m.journal]
                    /\ call' = OnboardCall(now, "save_topic_onboarding_context",
                                           payload, "OK", topic,
                                           state.starter_topics[topic],
                                           state.topic_progress[topic].phase,
                                           NoTopic, w.changed, m.commit_sha)

complete_topic_onboarding ==
    \E payload \in CompleteInputs :
    \E chk \in {_validate_topic(payload.topic)} :
        /\ CanCall(Caller)
        /\ req' = [req EXCEPT !.n = @ + 1]
        /\ UNCHANGED links
        /\ IF ~chk.ok
           THEN /\ call' = OnboardError("complete_topic_onboarding", payload,
                                        chk.code)
                /\ UNCHANGED <<fs, dirs, git, journal>>
           ELSE \E topic \in {chk.value}, now \in {call.now} :
                \E w0 \in {_bootstrap_user_library(Work(fs, dirs, {}), OnboardRoot,
                                                   now)} :
                \E before \in {read_onboarding_state(w0.fs, OnboardRoot, now)} :
                \E state \in {CompletedState(before, topic, now)} :
                \E w1 \in {persist_onboarding_state(w0, OnboardRoot, state, now)} :
                \E action_plan_path \in {topic_file_path(OnboardRoot, topic,
                                                         "action-plan.md")} :
                \E w \in {IF payload.summary.kind = "str"
                             /\ Strip(payload.summary.s) # <<>>
                          THEN Work(_atomic_write(w1.fs, action_plan_path,
                                        _join_with_newline(
                                            Decode(w1.fs[action_plan_path]),
                                            Block("## Onboarding Summary"))),
                                    w1.dirs,
                                    w1.changed
                                        \cup {RelativeTo(action_plan_path,
                                                         OnboardRoot)})
                          ELSE w1} :
                \E m \in {_commit_mutation(w.fs, OnboardRoot, git[Caller], journal[Caller], w.changed,
                                           "complete_topic_onboarding",
                                           <<"life", topic, "action-plan.md">>,
                                           <<"complete topic onboarding", topic>>)} :
                \E after \in {read_onboarding_state(w.fs, OnboardRoot, now)} :
                    /\ fs' = w.fs
                    /\ dirs' = w.dirs
                    /\ git' = [git EXCEPT ![Caller] = m.git]
                    /\ journal' = [journal EXCEPT ![Caller] = m.journal]
                    /\ call' = OnboardCall(now, "complete_topic_onboarding", payload,
                                           "OK", topic, after.starter_topics[topic],
                                           state.topic_progress[topic].phase,
                                           next_incomplete_topic(after),
                                           w.changed, m.commit_sha)

\* the wall clock moves on by a second between two calls
Tick ==
    /\ req.n < MaxCalls
    /\ call.now < MaxClock
    /\ call' = [call EXCEPT !.now = @ + 1]
    /\ UNCHANGED <<fs, dirs, links, git, journal, req>>

\* a tenant nothing was ever called for
NewLibrary ==
    [fs |-> EmptyFs, dirs |-> TenantRoots, git |-> GitAbsent, journal |-> <<>>]

\* the history of a library in long use: finances was completed once and
\* fitness over and over (complete_topic_onboarding appends an entry each
\* time), one entry short of the limit
LongHistory ==
    [i \in 1..(HISTORY_LIMIT - 1) |->
        <<"complete_onboarding", IF i = 1 THEN "finances" ELSE "fitness">>]

\* that library at second 0: the tree of the bootstrapper with the two topics
\* complete (its earlier commits and journal lines are kept as one)
UsedLibrary ==
    Local(_bootstrap_user_library(Work(EmptyFs, TenantRoots, {}), OnboardRoot, 0),
          LAMBDA w0 :
    Local(read_onboarding_state(w0.fs, OnboardRoot, 0), LAMBDA fresh :
    Local(CompletedState(CompletedState(fresh, "finances", 0), "fitness", 0),
          LAMBDA done :
    Local(persist_onboarding_state(
              w0, OnboardRoot, [done EXCEPT !.topic_history = LongHistory], 0),
          LAMBDA w :
    Local(_commit_mutation(w.fs, OnboardRoot, GitAbsent, <<>>, w.changed,
                           "complete_topic_onboarding",
                           <<"life", "fitness", "action-plan.md">>,
                           <<"complete topic onboarding", "fitness">>),
          LAMBDA m :
        [fs |-> w.fs, dirs |-> w.dirs, git |-> m.git, journal |-> m.journal])))))

\* a library at second 0 in which every topic but fitness was completed
LateLibrary ==
    Local(_bootstrap_user_library(Work(EmptyFs, TenantRoots, {}), OnboardRoot, 0),
          LAMBDA w0 :
    Local(read_onboarding_state(w0.fs, OnboardRoot, 0), LAMBDA fresh :
    Local(CompletedState(
              CompletedState(
                  CompletedState(CompletedState(fresh, "finances", 0),
                                 "relationships", 0),
                  "career", 0),
              "whyfinder", 0),
          LAMBDA done :
    Local(persist_onboarding_state(w0, OnboardRoot, done, 0), LAMBDA w :
    Local(_commit_mutation(w.fs, OnboardRoot, GitAbsent, <<>>, w.changed,
                           "complete_topic_onboarding",
                           <<"life", "whyfinder", "action-plan.md">>,
                           <<"complete topic onboarding", "whyfinder">>),
          LAMBDA m :
        [fs |-> w.fs, dirs |-> w.dirs, git |-> m.git, journal |-> m.journal])))))

InitOnboard ==
    /\ \E library \in {NewLibrary, UsedLibrary, LateLibrary} :
          /\ fs = library.fs
          /\ dirs = library.dirs
          /\ git = [t \in Tenants |-> IF t = Caller THEN library.git ELSE GitAbsent]
          /\ journal = [t \in Tenants |-> IF t = Caller THEN library.journal ELSE <<>>]
    /\ links = {}
    /\ req = IdleReq
    /\ call = OnboardCall(0, "none", <<>>, "none", NoTopic, "none", NoPhase,
                          NoTopic, {}, NoSha)

NextOnboard ==
    \/ bootstrap_user_library
    \/ start_topic_onboarding
    \/ save_topic_onboarding_context
    \/ complete_topic_onboarding
    \/ Tick

SpecOnboard == InitOnboard /\ [][NextOnboard]_vars

(***************************************************************************)
(* Claims over SpecOnboard                                                 *)
(***************************************************************************)
\* the onboarding state file of the caller, as get_onboarding_state reads it
OnboardingState == read_onboarding_state(fs, OnboardRoot, call.now)

StateFileExists == _state_path(OnboardRoot) \in DOMAIN fs

\* C16: bootstrap_user_library called twice in a row, with nothing but time
\* passing in between, is idempotent: the second call leaves the disk as it
\* was, reports no changed path and makes no commit and no journal entry.
C16_BootstrapIdempotent ==
    [][(/\ call.fn = "bootstrap_user_library"
        /\ call'.fn = "bootstrap_user_library"
        /\ req'.n = req.n + 1)
       => /\ fs' = fs
          /\ dirs' = dirs
          /\ call'.changed = {}
          /\ call'.commitSha = NoSha
          /\ git' = git
          /\ journal' = journal]_vars

\* the object in the onboarding state file, as it was written
PersistedFile == fs[_state_path(OnboardRoot)]

\* C17: in every persisted onboarding state, for each topic, starter_topics is
\* "complete" exactly when completed_at has an entry, exactly when
\* topic_progress.completed_at_utc is set.
C17_CompletionFieldsAgree ==
    StateFileExists =>
        \A topic \in Topics :
            /\ (PersistedFile.starter_topics[topic] = "complete")
                   <=> (PersistedFile.completed_at[topic] # NoTime)
            /\ (PersistedFile.completed_at[topic] # NoTime)
                   <=> (PersistedFile.topic_progress[topic].completed_at_utc # NoTime)

C17_Witness ==
    /\ StateFileExists
    /\ call.fn = "start_topic_onboarding"
    /\ call.code = "OK"
    /\ \E done, open \in Topics :
          /\ PersistedFile.starter_topics[done] = "complete"
          /\ PersistedFile.completed_at[done] < call.now
          /\ PersistedFile.starter_topics[open] = "in_progress"

StartReturned == call.fn = "start_topic_onboarding" /\ call.code = "OK"

\* C18: after a successful start_topic_onboarding(topic), from any prior state
\* of the topic, the topic's status is in_progress, its phase is opening and
\* started_at_utc is set.
C18_StartMakesInProgress ==
    StartReturned =>
        /\ PersistedFile.topic_progress[call.topic].status = "in_progress"
        /\ PersistedFile.topic_progress[call.topic].phase = "opening"
        /\ PersistedFile.topic_progress[call.topic].started_at_utc # NoTime

\* C18 (amended): a successful start_topic_onboarding(topic) of a topic that is
\* not complete leaves it in_progress in phase opening with started_at_utc set,
\* keeping an earlier value; a complete topic keeps its status, phase and
\* started_at_utc.
C18_StartOfOpenTopic ==
    [][(StartReturned' /\ req'.n = req.n + 1)
       => LET before == OnboardingState.topic_progress[call'.topic]
              after == PersistedFile'.topic_progress[call'.topic]
          IN IF before.status = "complete"
             THEN /\ after.status = "complete"
                  /\ after.phase = before.phase
                  /\ after.started_at_utc = before.started_at_utc
             ELSE /\ after.status = "in_progress"
                  /\ after.phase = "opening"
                  /\ after.started_at_utc =
                         IF before.started_at_utc # NoTime
                         THEN before.started_at_utc ELSE call.now]_vars

C18_Witness ==
    /\ StartReturned
    /\ PersistedFile.topic_progress[call.topic].status = "in_progress"
    /\ PersistedFile.topic_progress[call.topic].started_at_utc # NoTime
    /\ PersistedFile.topic_progress[call.topic].started_at_utc
           < PersistedFile.topic_progress[call.topic].last_interview_at_utc

\* nt is the first topic of the fixed order whose status is not complete, or
\* no topic when all are complete
FirstOpenTopicIs(state, nt) ==
    IF \A topic \in Topics : state.topic_progress[topic].status = "complete"
    THEN nt = NoTopic
    ELSE \E i \in DOMAIN TOPIC_ORDER :
            /\ nt = TOPIC_ORDER[i]
            /\ state.topic_progress[nt].status # "complete"
            /\ \A j \in 1..(i - 1) :
                  state.topic_progress[TOPIC_ORDER[j]].status = "complete"

\* C19: after a successful complete_topic_onboarding(topic), from any prior
\* state, the topic's status and phase are both complete, completed_at_utc is
\* stamped, and the reported next topic is the first topic of the fixed order
\* that is not complete (none when all are).
C19_CompleteStampsAndRecommends ==
    (call.fn = "complete_topic_onboarding" /\ call.code = "OK") =>
        /\ PersistedFile.topic_progress[call.topic].status = "complete"
        /\ PersistedFile.topic_progress[call.topic].phase = "complete"
        /\ PersistedFile.topic_progress[call.topic].completed_at_utc # NoTime
        /\ call.status = "complete"
        /\ call.phase = "complete"
        /\ FirstOpenTopicIs(PersistedFile, call.next_topic)

C19_Witness ==
    /\ call.fn = "complete_topic_onboarding"
    /\ call.code = "OK"
    /\ call.topic = "fitness"
    /\ call.next_topic = "relationships"

UnapprovedSave ==
    /\ call'.fn = "save_topic_onboarding_context"
    /\ req'.n = req.n + 1
    /\ ~(call'.payload.approved.kind = "bool" /\ call'.payload.approved.b)

NothingChanged == fs' = fs /\ dirs' = dirs /\ git' = git /\ journal' = journal

OnboardingTransition ==
    /\ req'.n = req.n + 1
    /\ call'.code = "OK"
    /\ call'.fn \in {"start_topic_onboarding", "save_topic_onboarding_context",
                     "complete_topic_onboarding"}

\* after is before with its last k entries newly appended, cut to the most
\* recent HISTORY_LIMIT entries, in order
AppendedAndCut(before, after, k) ==
    /\ k <= Len(after)
    /\ Len(after) <= HISTORY_LIMIT
    /\ LET all == before \o SubSeq(after, Len(after) - k + 1, Len(after))
       IN /\ Len(after) = IF Len(all) <= HISTORY_LIMIT THEN Len(all)
                          ELSE HISTORY_LIMIT
          /\ after = SubSeq(all, Len(all) - Len(after) + 1, Len(all))

\* C21: every successful onboarding transition (start, save_context,
\* complete) appends at least one entry to topic_history, and topic_history
\* holds at most 200 entries, the most recent ones in their original order.
C21_EveryTransitionAppends ==
    [][OnboardingTransition
       => \E k \in 1..2 :
             AppendedAndCut(OnboardingState.topic_history,
                            PersistedFile'.topic_history, k)]_vars

\* the number of entries a successful call appends: start appends one when
\* the topic was not started and none otherwise; save_context appends one,
\* and one more when the topic was not started; complete appends one
EntriesAppended(fn, status) ==
    IF fn = "start_topic_onboarding"
    THEN IF status = "not_started" THEN 1 ELSE 0
    ELSE IF fn = "save_topic_onboarding_context"
         THEN IF status = "not_started" THEN 2 ELSE 1
    ELSE 1

\* C21 (amended): a successful save_context or complete, and a successful
\* start of a topic that was not started, appends at least one entry to
\* topic_history; a start of a topic that is in progress or complete appends
\* none; topic_history holds at most 200 entries, the most recent ones in
\* their original order.
C21_HistoryAppendedAndCut ==
    [][OnboardingTransition
       => AppendedAndCut(OnboardingState.topic_history,
                         PersistedFile'.topic_history,
                         EntriesAppended(call'.fn,
                             OnboardingState.starter_topics[call'.topic]))]_vars

\* the oldest entry has been cut off a full history
C21_Witness ==
    /\ StateFileExists
    /\ call.fn = "save_topic_onboarding_context"
    /\ call.code = "OK"
    /\ Len(PersistedFile.topic_history) = HISTORY_LIMIT
    /\ PersistedFile.topic_history[1] # LongHistory[1]

\* C38: after every successful onboarding call, the persisted topic_queue is
\* exactly the list of topics whose status is not complete, in the fixed
\* topic order (empty when all topics are complete), and
\* recommended_next_topic is its first element or null.
C38_QueueListsOpenTopics ==
    (call.code = "OK" /\ StateFileExists) =>
        LET open == SelectSeq(TOPIC_ORDER,
                              LAMBDA topic :
                                  PersistedFile.topic_progress[topic].status # "complete")
        IN /\ PersistedFile.topic_queue = open
           /\ PersistedFile.recommended_next_topic
                  = IF open = <<>> THEN NoTopic ELSE open[1]

\* status and phase of every topic agree in the object
PhaseAgrees(state) ==
    \A topic \in Topics :
        LET progress == state.topic_progress[topic]
        IN /\ progress.phase = "not_started" <=> progress.status = "not_started"
           /\ progress.phase = "complete" <=> progress.status = "complete"

\* C37: in every onboarding state reached by start, save_context and
\* complete calls, each topic's status and phase agree (phase is not_started
\* exactly when status is not_started, phase is complete exactly when status
\* is complete), and once a topic's status is complete no later call changes
\* its status or phase.
C37_StatusAndPhaseAgree ==
    [][_state_path(OnboardRoot) \in DOMAIN fs'
       => /\ PhaseAgrees(fs'[_state_path(OnboardRoot)])
          /\ StateFileExists =>
                 \A topic \in Topics :
                     PersistedFile.topic_progress[topic].status = "complete"
                         => /\ fs'[_state_path(OnboardRoot)].topic_progress[topic].status
                                   = "complete"
                            /\ fs'[_state_path(OnboardRoot)].topic_progress[topic].phase
                                   = PersistedFile.topic_progress[topic].phase]_vars

(***************************************************************************)
(* Task ledger (src/app/mcp_tasks.py). A task line is a text of the        *)
(* pieces "- [", status, "] ", "T-", the three digits of the id, " | ",    *)
(* the priority, " | " and the title; no scope folder exists in the        *)
(* tenant's tree, so no scope is inferred for a task.                      *)
(***************************************************************************)
\* format(task_id, "03d") for the ids the model reaches
Pad3 == <<"001", "002", "003", "004", "005", "006", "007", "008", "009">>

PRIORITIES == {"p0", "p1", "p2", "p3", "high", "medium", "low"}

\* the file names of strftime("%Y-%m") for the months the clock goes through
MONTHS == <<"2026-11.md", "2026-12.md", "2027-01.md", "2027-02.md", "2027-03.md">>

\* _format_task_line of a task that has a priority and a title
_format_task_line(task) ==
    RStripSet(<<"- [", task.status, "] ", "T-", Pad3[task.id], " | ">>
                  \o (IF task.priority # "" THEN <<task.priority, " | ">> ELSE <<>>)
                  \o task.title,
              Whitespace)

\* TASK_LINE_PATTERN.match on a stripped line
TASK_LINE_PATTERN(s) ==
    /\ Len(s) >= 6
    /\ s[1] = "- ["
    /\ s[2] \in {" ", "x", "X"}
    /\ s[3] = "] "
    /\ s[4] = "T-"
    /\ \E id \in DOMAIN Pad3 : Pad3[id] = s[5]
    /\ s[6] = " | "

\* the task _parse_tasks builds from a matching line: the first part is the
\* priority when it is one of the priority words, the rest is the title
ParsedTask(line) ==
    LET s == Strip(line)
        rest == SubSeq(s, 7, Len(s))
        prioritized == /\ rest # <<>>
                       /\ rest[1] \in PRIORITIES
                       /\ (Len(rest) = 1 \/ rest[2] = " | ")
    IN [id |-> CHOOSE id \in DOMAIN Pad3 : Pad3[id] = s[5],
        status |-> IF s[2] = " " THEN " " ELSE "x",
        priority |-> IF prioritized THEN rest[1] ELSE "",
        title |-> IF prioritized THEN SubSeq(rest, 3, Len(rest)) ELSE rest]

\* str.splitlines()
PlainLines(content) ==
    Local(SplitLines(content), LAMBDA kept :
        [i \in DOMAIN kept |-> RStripSet(kept[i], {CR, LF})])

\* _parse_tasks: the tasks of the matching lines, and every line
_parse_tasks(content) ==
    Local(PlainLines(content), LAMBDA lines :
    Local(SelectSeq(lines, LAMBDA line : TASK_LINE_PATTERN(Strip(line))),
          LAMBDA matching :
        [tasks |-> [i \in DOMAIN matching |-> ParsedTask(matching[i])],
         lines |-> lines]))

\* f"T-{task_id:03d}" in line
TagIn(line, task_id) ==
    \E k \in 1..(Len(line) - 1) : line[k] = "T-" /\ line[k + 1] = Pad3[task_id]

\* _find_task_line_index: the first line the tag occurs in, 0 for None
_find_task_line_index(lines, task_id) ==
    LET hits == {i \in DOMAIN lines : TagIn(lines[i], task_id)}
    IN IF hits = {} THEN 0 ELSE CHOOSE i \in hits : \A j \in hits : i <= j

\* _pop_task: the first task of that id, and the lines without the line
\* _find_task_line_index names
_pop_task(tasks, lines, task_id) ==
    LET found == {i \in DOMAIN tasks : tasks[i].id = task_id}
    IN IF found = {} THEN [found |-> FALSE, task |-> <<>>, lines |-> lines]
       ELSE Local(_find_task_line_index(lines, task_id), LAMBDA line_index :
            [found |-> TRUE,
             task |-> tasks[CHOOSE i \in found : \A j \in found : i <= j],
             lines |-> IF line_index = 0 THEN lines
                       ELSE SubSeq(lines, 1, line_index - 1)
                                \o SubSeq(lines, line_index + 1, Len(lines))])

\* "\n".join(lines).rstrip() + "\n"
JoinLines(lines) ==
    RStripSet(Flatten([i \in DOMAIN lines |->
                          IF i < Len(lines) THEN lines[i] \o <<LF>> ELSE lines[i]]),
              Whitespace) \o <<LF>>

_index_path(library_root) == library_root \o <<"pulse", "index.md">>

\* _completed_tasks_path: the log of the month the clock is in
_completed_tasks_path(library_root, now) ==
    library_root \o <<"pulse", "completed", MONTHS[now + 1]>>

\* the files _load_tasks reads for the filter "all": the open ledger, every
\* file of pulse/completed and the legacy pulse/archive.md
LedgerFiles(f, library_root) ==
    {p \in DOMAIN f :
        \/ p = _index_path(library_root)
        \/ p = library_root \o <<"pulse", "archive.md">>
        \/ Parent(p) = library_root \o <<"pulse", "completed">>}

\* _load_tasks(library_root, "all"): every task line, with the file it is in
_load_tasks(f, library_root) ==
    UNION {Local(_parse_tasks(Decode(f[p])).tasks, LAMBDA tasks :
               {[sourcePath |-> p, n |-> i, task |-> tasks[i]] : i \in DOMAIN tasks})
           : p \in LedgerFiles(f, library_root)}

\* _next_task_id
_next_task_id(f, library_root) ==
    Local(_load_tasks(f, library_root), LAMBDA tasks :
        IF tasks = {} THEN 1
        ELSE (CHOOSE t \in tasks : \A u \in tasks : u.task.id <= t.task.id).task.id + 1)

\* what a task handler has done to the disk when it reaches its commit: the
\* files written, the file its rollback restores and the text it restores
TaskWork(f, ds, task, target, original) ==
    [fs |-> f, dirs |-> ds, task |-> task, target |-> target, original |-> original]

\* create_task, lines 67-83
create_task_write(f, ds, library_root, title) ==
    Local(_index_path(library_root), LAMBDA index_path :
    Local([id |-> _next_task_id(f, library_root), status |-> " ",
           priority |-> "p2", title |-> title],
          LAMBDA task :
    Local(IF index_path \in DOMAIN f THEN Decode(f[index_path]) ELSE <<>>,
          LAMBDA existing :
        TaskWork(_atomic_write(f, index_path,
                     _join_with_newline(existing, _format_task_line(task))),
                 MkdirParents(Parent(index_path), ds),
                 task, index_path, existing))))

\* _apply_task_updates for the keys title and priority
_apply_task_updates(task, fields) ==
    [task EXCEPT !.title = IF "title" \in fields.has THEN fields.title ELSE @,
                 !.priority = IF "priority" \in fields.has THEN fields.priority ELSE @]

\* update_task, lines 138-168: the first task of that id is updated and the
\* line _find_task_line_index names is replaced by its new text
update_task_write(f, ds, library_root, task_id, fields) ==
    Local(_index_path(library_root), LAMBDA index_path :
    IF index_path \notin DOMAIN f THEN Err("FILE_NOT_FOUND")
    ELSE
    Local(_parse_tasks(Decode(f[index_path])), LAMBDA parsed :
    Local({i \in DOMAIN parsed.tasks : parsed.tasks[i].id = task_id}, LAMBDA found :
    IF found = {} THEN Err("TASK_NOT_FOUND")
    ELSE
    Local(_apply_task_updates(
              parsed.tasks[CHOOSE i \in found : \A j \in found : i <= j], fields),
          LAMBDA task :
    Local(_find_task_line_index(parsed.lines, task_id), LAMBDA line_index :
    Local(IF line_index = 0 THEN parsed.lines
          ELSE [parsed.lines EXCEPT ![line_index] = _format_task_line(task)],
          LAMBDA lines :
        Ok(TaskWork(_atomic_write(f, index_path, JoinLines(lines)), ds,
                    task, index_path, Decode(f[index_path])))))))))

\* complete_task, lines 209-247
complete_task_write(f, ds, library_root, task_id, now) ==
    Local(_index_path(library_root), LAMBDA index_path :
    IF index_path \notin DOMAIN f THEN Err("FILE_NOT_FOUND")
    ELSE
    Local(_parse_tasks(Decode(f[index_path])), LAMBDA parsed :
    Local(_pop_task(parsed.tasks, parsed.lines, task_id), LAMBDA popped :
    IF ~popped.found THEN Err("TASK_NOT_FOUND")
    ELSE
    Local([popped.task EXCEPT !.status = "x"], LAMBDA task :
    Local(_completed_tasks_path(library_root, now), LAMBDA completed_path :
    Local(IF completed_path \in DOMAIN f THEN Decode(f[completed_path]) ELSE <<>>,
          LAMBDA completed_content :
        Ok(TaskWork(
               _atomic_write(
                   _atomic_write(f, index_path, JoinLines(popped.lines)),
                   completed_path,
                   _join_with_newline(completed_content, _format_task_line(task))),
               MkdirParents(Parent(completed_path), ds),
               task, index_path, Decode(f[index_path])))))))))

\* reopen_task, lines 294-332
reopen_task_write(f, ds, library_root, task_id, now) ==
    Local(_completed_tasks_path(library_root, now), LAMBDA completed_path :
    IF completed_path \notin DOMAIN f THEN Err("FILE_NOT_FOUND")
    ELSE
    Local(_parse_tasks(Decode(f[completed_path])), LAMBDA parsed :
    Local(_pop_task(parsed.tasks, parsed.lines, task_id), LAMBDA popped :
    IF ~popped.found THEN Err("TASK_NOT_FOUND")
    ELSE
    Local([popped.task EXCEPT !.status = " "], LAMBDA task :
    Local(_index_path(library_root), LAMBDA index_path :
    Local(IF index_path \in DOMAIN f THEN Decode(f[index_path]) ELSE <<>>,
          LAMBDA index_content :
        Ok(TaskWork(
               _atomic_write(
                   _atomic_write(f, completed_path, JoinLines(popped.lines)),
                   index_path,
                   _join_with_newline(index_content, _format_task_line(task))),
               MkdirParents(Parent(index_path), ds),
               task, completed_path, Decode(f[completed_path])))))))))

(***************************************************************************)
(* Specification SpecTasks: create_task, complete_task and reopen_task of  *)
(* one tenant while the months go by. A handler runs as one step; its      *)
(* commit or its journal append may fail.                                  *)
(***************************************************************************)
TaskRoot == resolve_user_library_root(Caller)

\* the open tasks of pulse/index.md, by id and title
OpenTasks(f) ==
    IF _index_path(TaskRoot) \notin DOMAIN f THEN {}
    ELSE Local(_parse_tasks(Decode(f[_index_path(TaskRoot)])).tasks, LAMBDA tasks :
             {[id |-> tasks[i].id, title |-> tasks[i].title] :
                 i \in {j \in DOMAIN tasks : tasks[j].status = " "}})

\* the clock (a count of months) and the last task call: its payload, its
\* answer and the id of its task; the ids create_task has answered so far,
\* the ids complete_task has completed and reopen_task has not reopened, the
\* open tasks as they were before the last call, and whether every call so
\* far was answered OK
TaskCall(now, fn, payload, code, task, assigned, completed, before, allOk) ==
    [now |-> now, fn |-> fn, payload |-> payload, code |-> code, task |-> task,
     assigned |-> assigned, completed |-> completed, before |-> before,
     allOk |-> allOk]

TaskError(fn, payload, code) ==
    TaskCall(call.now, fn, payload, code, 0, call.assigned, call.completed,
             OpenTasks(fs), FALSE)

TaskId(n) == [kind |-> "int", n |-> n]

TitleInputs == {Str(<<"a">>), Str(<<"after ", "T-", "001">>), Missing}

IdInputs == {TaskId(1), TaskId(2), TaskId(3),
             [kind |-> "other", n |-> 0], [kind |-> "missing", n |-> 0]}

\* payload["fields"]: an object with some of the keys, no object, or absent
TaskFields(has, title, priority) ==
    [kind |-> "dict", has |-> has, title |-> title, priority |-> priority]

FieldInputs == {TaskFields({"title"}, <<"b">>, ""), TaskFields({"priority"}, <<>>, "p1"),
                [TaskFields({}, <<>>, "") EXCEPT !.kind = "other"],
                [TaskFields({}, <<>>, "") EXCEPT !.kind = "missing"]}

\* the commit is made and journaled, or the commit raises, or the journal
\* append raises
Outcomes == {"ok", "commit_fails", "journal_fails"}

\* the id check of complete_task and reopen_task, lines 194-207
task_id_check(value) ==
    IF value.kind = "missing" THEN Err("MISSING_ID")
    ELSE IF value.kind # "int" THEN Err("INVALID_TYPE")
    ELSE Ok(value.n)

\* the end of a task handler from its commit on: the rollback of the one
\* file when the commit raises, the journal line when it does not
TaskCommitted(w, outcome, operation, relative_path, summary) ==
    Local(_ensure_git_repo(git[Caller]), LAMBDA repo :
        IF outcome = "commit_fails"
        THEN [fs |-> _rollback_markdown_change(
                         w.fs, [target |-> w.target, original |-> Text(w.original)]),
              git |-> repo, journal |-> journal[Caller], code |-> "GIT_ERROR"]
        ELSE [fs |-> w.fs,
              git |-> _commit_markdown_change(repo, relative_path, operation),
              journal |-> IF outcome = "journal_fails" THEN journal[Caller]
                          ELSE _append_activity_log(
                                   journal[Caller],
                                   _build_activity_entry(operation, relative_path,
                                                         summary, NewSha(repo))),
              code |-> IF outcome = "journal_fails" THEN "INTERNAL_ERROR" ELSE "OK"])

create_task ==
    \E title \in TitleInputs, outcome \in Outcomes :
        /\ CanCall(Caller)
        /\ req' = [req EXCEPT !.n = @ + 1]
        /\ UNCHANGED links
        /\ IF title.kind = "missing"
           THEN /\ outcome = "ok"
                /\ call' = TaskError("create_task", title, "MISSING_TITLE")
                /\ UNCHANGED <<fs, dirs, git, journal>>
           ELSE \E w \in {create_task_write(fs, dirs, TaskRoot, title.s)} :
                \E m \in {TaskCommitted(w, outcome, "create_task",
                                        <<"pulse", "index.md">>, <<"create task">>)} :
                    /\ fs' = m.fs
                    /\ dirs' = w.dirs
                    /\ git' = [git EXCEPT ![Caller] = m.git]
                    /\ journal' = [journal EXCEPT ![Caller] = m.journal]
                    /\ call' = TaskCall(call.now, "create_task", title, m.code,
                                        w.task.id,
                                        IF m.code = "OK"
                                        THEN call.assigned \cup {w.task.id}
                                        ELSE call.assigned,
                                        call.completed, OpenTasks(fs),
                                        call.allOk /\ m.code = "OK")

\* the checks of update_task on id and fields, lines 112-132
update_task_check(value, fields) ==
    IF value.kind = "missing" \/ fields.kind = "missing" THEN Err("MISSING_FIELDS")
    ELSE IF value.kind # "int" THEN Err("INVALID_TYPE")
    ELSE IF fields.kind # "dict" THEN Err("INVALID_TYPE")
    ELSE Ok(value.n)

update_task ==
    \E value \in IdInputs, fields \in FieldInputs, outcome \in Outcomes :
    \E chk \in {update_task_check(value, fields)} :
        /\ CanCall(Caller)
        /\ req' = [req EXCEPT !.n = @ + 1]
        /\ UNCHANGED links
        /\ IF ~chk.ok
           THEN /\ outcome = "ok"
                /\ call' = TaskError("update_task", value, chk.code)
                /\ UNCHANGED <<fs, dirs, git, journal>>
           ELSE \E r \in {update_task_write(fs, dirs, TaskRoot, chk.value, fields)} :
                IF ~r.ok
                THEN /\ outcome = "ok"
                     /\ call' = TaskError("update_task", value, r.code)
                     /\ UNCHANGED <<fs, dirs, git, journal>>
                ELSE \E w \in {r.value} :
                     \E m \in {TaskCommitted(w, outcome, "update_task",
                                             <<"pulse", "index.md">>,
                                             <<"update task">>)} :
                         /\ fs' = m.fs
                         /\ dirs' = w.dirs
                         /\ git' = [git EXCEPT ![Caller] = m.git]
                         /\ journal' = [journal EXCEPT ![Caller] = m.journal]
                         /\ call' = TaskCall(call.now, "update_task", value, m.code,
                                             w.task.id, call.assigned, call.completed,
                                             OpenTasks(fs),
                                             call.allOk /\ m.code = "OK")

complete_task ==
    \E value \in IdInputs, outcome \in Outcomes :
    \E chk \in {task_id_check(value)} :
        /\ CanCall(Caller)
        /\ req' = [req EXCEPT !.n = @ + 1]
        /\ UNCHANGED links
        /\ IF ~chk.ok
           THEN /\ outcome = "ok"
                /\ call' = TaskError("complete_task", value, chk.code)
                /\ UNCHANGED <<fs, dirs, git, journal>>
           ELSE \E r \in {complete_task_write(fs, dirs, TaskRoot, chk.value,
                                              call.now)} :
                IF ~r.ok
                THEN /\ outcome = "ok"
                     /\ call' = TaskError("complete_task", value, r.code)
                     /\ UNCHANGED <<fs, dirs, git, journal>>
                ELSE \E w \in {r.value} :
                     \E m \in {TaskCommitted(
                                   w, outcome, "complete_task",
                                   RelativeTo(_completed_tasks_path(TaskRoot, call.now),
                                              TaskRoot),
                                   <<"complete task">>)} :
                         /\ fs' = m.fs
                         /\ dirs' = w.dirs
                         /\ git' = [git EXCEPT ![Caller] = m.git]
                         /\ journal' = [journal EXCEPT ![Caller] = m.journal]
                         /\ call' = TaskCall(call.now, "complete_task", value, m.code,
                                             w.task.id, call.assigned,
                                             IF m.code = "OK"
                                             THEN call.completed \cup {w.task.id}
                                             ELSE call.completed,
                                             OpenTasks(fs),
                                             call.allOk /\ m.code = "OK")

reopen_task ==
    \E value \in IdInputs, outcome \in Outcomes :
    \E chk \in {task_id_check(value)} :
        /\ CanCall(Caller)
        /\ req' = [req EXCEPT !.n = @ + 1]
        /\ UNCHANGED links
        /\ IF ~chk.ok
           THEN /\ outcome = "ok"
                /\ call' = TaskError("reopen_task", value, chk.code)
                /\ UNCHANGED <<fs, dirs, git, journal>>
           ELSE \E r \in {reopen_task_write(fs, dirs, TaskRoot, chk.value,
                                            call.now)} :
                IF ~r.ok
                THEN /\ outcome = "ok"
                     /\ call' = TaskError("reopen_task", value, r.code)
                     /\ UNCHANGED <<fs, dirs, git, journal>>
                ELSE \E w \in {r.value} :
                     \E m \in {TaskCommitted(w, outcome, "reopen_task",
                                             <<"pulse", "index.md">>,
                                             <<"reopen task">>)} :
                         /\ fs' = m.fs
                         /\ dirs' = w.dirs
                         /\ git' = [git EXCEPT ![Caller] = m.git]
                         /\ journal' = [journal EXCEPT ![Caller] = m.journal]
                         /\ call' = TaskCall(call.now, "reopen_task", value, m.code,
                                             w.task.id, call.assigned,
                                             IF m.code = "OK"
                                             THEN call.completed \ {w.task.id}
                                             ELSE call.completed,
                                             OpenTasks(fs),
                                             call.allOk /\ m.code = "OK")

\* the UTC month ends between two calls
MonthEnds ==
    /\ req.n < MaxCalls
    /\ call.now < MaxClock
    /\ call' = [call EXCEPT !.now = @ + 1]
    /\ UNCHANGED <<fs, dirs, links, git, journal, req>>

\* a tenant with no task yet
NewLedger ==
    [fs |-> EmptyFs, dirs |-> TenantRoots, git |-> GitAbsent, journal |-> <<>>,
     assigned |-> {}]

\* a handler's writes with its commit and its journal line
Recorded(library, w, operation, relative_path, summary) ==
    Local(_ensure_git_repo(library.git), LAMBDA repo :
        [library EXCEPT
           !.fs = w.fs,
           !.dirs = w.dirs,
           !.git = _commit_markdown_change(repo, relative_path, operation),
           !.journal = _append_activity_log(
                           @, _build_activity_entry(operation, relative_path, summary,
                                                    NewSha(repo)))])

\* a ledger in use, in the first month: task 1 "a" and task 2 "after T-001"
\* were created, task 1 was completed and reopened
UsedLedger ==
    Local(Recorded(NewLedger,
                   create_task_write(NewLedger.fs, NewLedger.dirs, TaskRoot, <<"a">>),
                   "create_task", <<"pulse", "index.md">>, <<"create task">>),
          LAMBDA one :
    Local(Recorded(one,
                   create_task_write(one.fs, one.dirs, TaskRoot,
                                     <<"after ", "T-", "001">>),
                   "create_task", <<"pulse", "index.md">>, <<"create task">>),
          LAMBDA two :
    Local(Recorded(two,
                   complete_task_write(two.fs, two.dirs, TaskRoot, 1, 0).value,
                   "complete_task",
                   RelativeTo(_completed_tasks_path(TaskRoot, 0), TaskRoot),
                   <<"complete task">>),
          LAMBDA done :
        [Recorded(done,
                  reopen_task_write(done.fs, done.dirs, TaskRoot, 1, 0).value,
                  "reopen_task", <<"pulse", "index.md">>, <<"reopen task">>)
         EXCEPT !.assigned = {1, 2}])))

InitTasks ==
    /\ \E ledger \in {NewLedger, UsedLedger} :
          /\ fs = ledger.fs
          /\ dirs = ledger.dirs
          /\ git = [t \in Tenants |-> IF t = Caller THEN ledger.git ELSE GitAbsent]
          /\ journal = [t \in Tenants |-> IF t = Caller THEN ledger.journal ELSE <<>>]
          /\ call = TaskCall(0, "none", <<>>, "none", 0, ledger.assigned, {},
                             OpenTasks(ledger.fs), TRUE)
    /\ links = {}
    /\ req = IdleReq

NextTasks ==
    \/ create_task
    \/ update_task
    \/ complete_task
    \/ reopen_task
    \/ MonthEnds

SpecTasks == InitTasks /\ [][NextTasks]_vars

(***************************************************************************)
(* Claims over SpecTasks                                                   *)
(***************************************************************************)
\* no two task lines of the open ledger and the completion logs share an id
UniqueTaskIds(f) ==
    \A t, u \in _load_tasks(f, TaskRoot) : t.task.id = u.task.id => t = u

\* a step that is a task call, every call up to and including it answered OK
SuccessfulTaskCall == req'.n = req.n + 1 /\ call'.allOk

\* C22: after any sequence of successful create_task, complete_task and
\* reopen_task calls, no two task lines across the open ledger and the
\* completion logs share an id, and every id assigned by create_task is
\* strictly greater than every id assigned or observed before it.
C22_TaskIdsUniqueAndIncreasing ==
    [][SuccessfulTaskCall
       => /\ UniqueTaskIds(fs')
          /\ call'.fn = "create_task"
                => /\ \A t \in _load_tasks(fs, TaskRoot) : t.task.id < call'.task
                   /\ \A id \in call.assigned : id < call'.task]_vars

\* the ids of the task lines in the completion logs
CompletedIds(f) ==
    {t.task.id : t \in {u \in _load_tasks(f, TaskRoot) :
                           u.sourcePath # _index_path(TaskRoot)}}

\* a reopen_task call, after successful calls only, for a task complete_task
\* has completed, in which neither the commit nor the journal append raises
ReopenOfCompleted ==
    /\ req'.n = req.n + 1
    /\ call.allOk
    /\ call'.fn = "reopen_task"
    /\ call'.payload.kind = "int"
    /\ call'.payload.n \in call.completed
    /\ call'.code \notin {"GIT_ERROR", "INTERNAL_ERROR"}

\* C23: reopen_task is the reverse of complete_task: for a task completed by
\* complete_task, in whichever UTC month the completion and the reopen happen,
\* reopen_task succeeds, removes the task from the completion log and puts it
\* back in pulse/index.md as open; after complete-then-reopen the set of open
\* tasks is what it was before.
C23_ReopenReversesComplete ==
    [][ReopenOfCompleted
       => /\ call'.code = "OK"
          /\ call'.payload.n \notin CompletedIds(fs')
          /\ call'.payload.n \in {t.id : t \in OpenTasks(fs')}
          /\ (call.fn = "complete_task" /\ call.task = call'.payload.n)
                => OpenTasks(fs') = call.before]_vars

\* the line is the ledger line of task n
TaskLineOf(line, n) == TASK_LINE_PATTERN(Strip(line)) /\ ParsedTask(line).id = n

\* the lines of a ledger file that are not empty and not a line of task n
OtherLines(f, p, n) ==
    IF p \notin DOMAIN f THEN <<>>
    ELSE SelectSeq(PlainLines(Decode(f[p])),
                   LAMBDA line : line # <<>> /\ ~TaskLineOf(line, n))

\* an update_task, complete_task or reopen_task call answered OK
TaskRewritten ==
    /\ req'.n = req.n + 1
    /\ call'.fn \in {"update_task", "complete_task", "reopen_task"}
    /\ call'.code = "OK"

\* C35: update_task, complete_task and reopen_task with id n rewrite or
\* remove exactly the ledger line of the task whose id is n and leave every
\* other line of the ledger files unchanged, also when another line mentions
\* 'T-n' in its text.
C35_OnlyTheTaskLineChanges ==
    [][TaskRewritten
       => \A p \in LedgerFiles(fs, TaskRoot) \cup LedgerFiles(fs', TaskRoot) :
              OtherLines(fs', p, call'.task) = OtherLines(fs, p, call'.task)]_vars

\* C36: no task is lost or duplicated: after any sequence of successful
\* create_task, update_task, complete_task and reopen_task calls, every task
\* id ever created is on exactly one line, in the open ledger or in exactly
\* one completion file.
C36_EveryTaskOnOneLine ==
    call.allOk =>
        \A id \in call.assigned :
            Cardinality({t \in _load_tasks(fs, TaskRoot) : t.task.id = id}) = 1

\* a complete_task or reopen_task call whose commit raised
TaskCommitFailed ==
    /\ req'.n = req.n + 1
    /\ call'.fn \in {"complete_task", "reopen_task"}
    /\ call'.code = "GIT_ERROR"

\* C31: when the commit step fails during complete_task or reopen_task, both
\* files the call wrote (the open ledger pulse/index.md and the completion
\* file of the month) equal their contents before the request, so the task
\* is in exactly the one file it was in before the call.
C31_FailedTaskMoveRestoresBothFiles ==
    [][TaskCommitFailed
       => \A p \in {_index_path(TaskRoot), _completed_tasks_path(TaskRoot, call.now)} :
              /\ p \in DOMAIN fs' <=> p \in DOMAIN fs
              /\ p \in DOMAIN fs => fs'[p] = fs[p]]_vars

(***************************************************************************)
(* create_project (src/app/mcp_projects.py, src/app/mcp_git.py)            *)
(***************************************************************************)
\* str.startswith
StartsWith(s, prefix) == Len(prefix) <= Len(s) /\ SubSeq(s, 1, Len(prefix)) = prefix

\* _normalize_scope_path
_normalize_scope_path(raw_path) ==
    LStripSet(RStripSet(ReplaceChar(Strip(raw_path), "\\", "/"), {"/"}), {"/"})

\* a files[] entry: its path and its content
FileEntry(path, content) == [path |-> path, content |-> content]

\* DEFAULT_PROJECT_FILES, by name (the texts are kept as one heading line)
DEFAULT_PROJECT_FILES ==
    <<FileEntry(<<"A", "G", "E", "N", "T", ".", "m", "d">>, <<"# Project Agent", LF>>),
      FileEntry(<<"s", "p", "e", "c", ".", "m", "d">>, <<"# Spec", LF>>),
      FileEntry(<<"b", "u", "i", "l", "d", "-", "p", "l", "a", "n", ".", "m", "d">>, <<"# Build Plan", LF>>),
      FileEntry(<<"d", "e", "c", "i", "s", "i", "o", "n", "s", ".", "m", "d">>, <<"# Decisions", LF>>),
      FileEntry(<<"i", "d", "e", "a", "s", ".", "m", "d">>, <<"# Ideas", LF>>)>>

\* _scope_default_files for a path under projects/ and for a path outside
\* life/, capture and projects/
_scope_default_files(raw_path) ==
    IF StartsWith(_normalize_scope_path(raw_path), <<"p", "r", "o", "j", "e", "c", "t", "s", "/">>)
    THEN [DEFAULT_PROJECT_FILES EXCEPT ![1].content = <<"# Agent", LF>>,
                                       ![2].content = <<"# Title", LF>>]
    ELSE <<FileEntry(<<"A", "G", "E", "N", "T", ".", "m", "d">>, <<"# Agent", LF>>),
           FileEntry(<<"s", "p", "e", "c", ".", "m", "d">>, <<"# Spec", LF>>),
           FileEntry(<<"b", "u", "i", "l", "d", "-", "p", "l", "a", "n", ".", "m", "d">>, <<"# Build Plan", LF>>)>>

\* _merge_scope_required_files: the defaults alone when no file is given, else
\* the given files followed by the defaults whose name is not among them
_merge_scope_required_files(raw_path, files_payload) ==
    Local(_scope_default_files(raw_path), LAMBDA defaults :
        IF files_payload = <<>> THEN defaults
        ELSE files_payload
                 \o SelectSeq(defaults, LAMBDA d :
                        \A i \in DOMAIN files_payload :
                            _normalize_scope_path(files_payload[i].path) # d.path))

RECURSIVE ValidatedFiles(_, _)
\* create_project, lines 393-452: the loop over files[], which stops at the
\* first entry it refuses; entries holds [path, content] payload values
ValidatedFiles(entries, validated) ==
    IF entries = <<>> THEN Ok(validated)
    ELSE LET entry == Head(entries)
             normalized_file_path ==
                 LStripSet(RStripSet(ReplaceChar(entry.path.s, "\\", "/"), {"/"}),
                           {"/"})
         IN IF entry.path.kind = "missing" THEN Err("MISSING_PATH")
            ELSE IF entry.content.kind = "missing" THEN Err("MISSING_CONTENT")
            ELSE IF entry.path.kind # "str" \/ entry.content.kind # "str"
                 THEN Err("INVALID_TYPE")
            ELSE IF \E i \in DOMAIN validated :
                        validated[i].path = normalized_file_path
                 THEN Err("DUPLICATE_FILES")
            ELSE ValidatedFiles(Tail(entries),
                                Append(validated,
                                       FileEntry(normalized_file_path,
                                                 entry.content.s)))

RECURSIVE ResolvedFiles(_, _, _, _)
\* create_project, lines 456-490: the loop over the merged files
ResolvedFiles(library_root, raw_path, merged, resolved) ==
    IF merged = <<>> THEN Ok(resolved)
    ELSE LET combined == Str(RStripSet(raw_path, {"/"}) \o <<"/">>
                                 \o LStripSet(Head(merged).path, {"/"}))
             resolved_file == validate_path(library_root, combined, links)
         IN IF ~resolved_file.ok THEN resolved_file
            ELSE IF ResolvedSuffix(combined) \notin ALLOWED_MARKDOWN_EXTENSIONS
                 THEN Err("NOT_MARKDOWN")
            ELSE IF \E i \in DOMAIN resolved : resolved[i].path = resolved_file.value
                 THEN Err("DUPLICATE_FILES")
            ELSE IF Exists(resolved_file.value) THEN Err("FILE_EXISTS")
            ELSE ResolvedFiles(library_root, raw_path, Tail(merged),
                               Append(resolved,
                                      FileEntry(resolved_file.value,
                                                Head(merged).content)))

\* create_project, lines 321-490: the checks before the first mkdir, for a
\* payload of path, name and files; the answer is the project directory and
\* the files to write
create_project_check(library_root, payload) ==
    LET named == payload.path.kind = "missing"
        given == IF named THEN payload.name ELSE payload.path
        raw_path == IF named /\ \A i \in DOMAIN given.s : given.s[i] \notin {"/", "\\"}
                    THEN <<"p", "r", "o", "j", "e", "c", "t", "s", "/">> \o <<"a", "c", "t", "i", "v", "e", "/">> \o given.s
                    ELSE given.s
        resolved_project == validate_path(library_root, Str(raw_path), links)
        validated == ValidatedFiles(payload.files.items, <<>>)
        resolved == ResolvedFiles(library_root, raw_path,
                                  _merge_scope_required_files(raw_path,
                                                              validated.value),
                                  <<>>)
    IN IF payload.path.kind = "missing" /\ payload.name.kind = "missing"
       THEN Err("MISSING_PATH")
       ELSE IF given.kind # "str" THEN Err("INVALID_TYPE")
       ELSE IF named /\ Strip(given.s) = <<>> THEN Err("INVALID_NAME")
       ELSE IF ~resolved_project.ok THEN resolved_project
       ELSE IF ResolvedSuffix(Str(raw_path)) \in ALLOWED_MARKDOWN_EXTENSIONS
            THEN Err("INVALID_PATH")
       ELSE IF Exists(resolved_project.value)
            THEN IF IsDir(resolved_project.value) THEN Err("PROJECT_EXISTS")
                 ELSE Err("INVALID_PATH")
       ELSE IF Exists(Parent(resolved_project.value))
               /\ ~IsDir(Parent(resolved_project.value))
            THEN Err("INVALID_PATH")
       ELSE IF payload.files.kind = "other" THEN Err("INVALID_TYPE")
       ELSE IF ~validated.ok THEN validated
       ELSE IF ~resolved.ok THEN resolved
       ELSE Ok([project |-> resolved_project.value, files |-> resolved.value])

\* resolved_file.parent.mkdir(parents=True, exist_ok=True) raises when a
\* component of the parent is a file; os.replace raises when the target is
\* a directory
CanWrite(f, ds, path) ==
    /\ \A n \in 1..(Len(path) - 1) : SubSeq(path, 1, n) \notin DOMAIN f
    /\ path \notin ds

RECURSIVE WrittenFiles(_, _, _)
\* create_project, lines 495-498: the loop that writes the files. It stops
\* before the file numbered stop, or before the first file the disk refuses;
\* the parent directories of that file may have been made by then
WrittenFiles(w, files, stop) ==
    IF files = <<>> THEN w
    ELSE LET file == Head(files)
             parents == IF \A n \in 1..(Len(file.path) - 1) :
                               SubSeq(file.path, 1, n) \notin DOMAIN w.fs
                        THEN MkdirParents(Parent(file.path), w.dirs)
                        ELSE w.dirs
         IN IF stop = Len(w.created) + 1 \/ ~CanWrite(w.fs, w.dirs, file.path)
            THEN [w EXCEPT !.dirs = parents, !.failed = TRUE]
            ELSE WrittenFiles([w EXCEPT
                                 !.fs = _atomic_write(@, file.path, file.content),
                                 !.dirs = parents,
                                 !.created = Append(@, file.path)],
                              Tail(files), stop)

\* _rollback_created_project: the created files are unlinked; every
\* directory below the project root, deepest first, and then the root are
\* removed when they are empty
_rollback_created_project(f, ds, created_files, project_root) ==
    Local([p \in (DOMAIN f) \ {created_files[i] : i \in DOMAIN created_files}
              |-> f[p]],
          LAMBDA kept :
        [fs |-> kept,
         dirs |-> {d \in ds : IsPrefix(project_root, d)
                                 => \E p \in DOMAIN kept : IsPrefix(d, p)}])

(***************************************************************************)
(* Specification SpecProjects: one tenant calls create_project. The call   *)
(* runs as one step; a write, the opening of the commit store, the commit  *)
(* or the journal append may fail.                                         *)
(***************************************************************************)
ProjectRoot == resolve_user_library_root(Caller)

\* the last create_project call: its payload, its answer, whether it passed
\* its checks, the project directory and the files it set out to write
ProjectCall(payload, code, started, project, files) ==
    [fn |-> "create_project", payload |-> payload, code |-> code,
     started |-> started, project |-> project, files |-> files]

FileList(items) == [kind |-> "list", items |-> items]

ProjectFileInputs ==
    {[kind |-> "missing", items |-> <<>>],
     [kind |-> "other", items |-> <<>>],
     FileList(<<FileEntry(Str(<<"a", ".", "m", "d">>), Str(<<"a">>))>>),
     FileList(<<FileEntry(Str(<<"a", ".", "m", "d">>), Str(<<"a">>)),
                FileEntry(Str(<<"a", ".", "m", "d", "/", "b", ".", "m", "d">>), Str(<<"b">>))>>),
     FileList(<<FileEntry(Str(<<"s", "/">> \o <<"a", ".", "m", "d">>), Str(<<"a">>)),
                FileEntry(Str(<<"x", ".", "t", "x", "t">>), Str(<<"x">>))>>)}

ProjectPayload(path, name, files) == [path |-> path, name |-> name, files |-> files]

ProjectInputs ==
    {ProjectPayload(Str(<<"p">>), Missing, files) : files \in ProjectFileInputs}
        \cup {ProjectPayload(Str(<<"d", "/", "p">>), Missing, files) :
                  files \in {f \in ProjectFileInputs : Len(f.items) <= 1}}
        \cup {ProjectPayload(Missing, Str(<<"n">>), FileList(<<>>)),
              ProjectPayload(Str(<<"a", ".", "m", "d">>), Missing, FileList(<<>>)),
              ProjectPayload(NonStr, Missing, FileList(<<>>)),
              ProjectPayload(Missing, Missing, FileList(<<>>))}

\* what happens after the files are written: all goes well, _ensure_git_repo
\* raises, the commit raises, or the journal append raises
ProjectOutcomes == {"ok", "repo_fails", "commit_fails", "journal_fails"}

create_project ==
    \E payload \in ProjectInputs, outcome \in ProjectOutcomes :
    \E chk \in {create_project_check(ProjectRoot, payload)} :
        /\ CanCall(Caller)
        /\ req' = [req EXCEPT !.n = @ + 1]
        /\ UNCHANGED links
        /\ IF ~chk.ok
           THEN /\ outcome = "ok"
                /\ call' = ProjectCall(payload, chk.code, FALSE, <<>>, {})
                /\ UNCHANGED <<fs, dirs, git, journal>>
           ELSE \E plan \in {chk.value} :
                \E planned \in {{plan.files[i].path : i \in DOMAIN plan.files}} :
                \E stop \in 0..Len(plan.files) :
                \E w \in {WrittenFiles([fs |-> fs,
                                        dirs |-> MkdirParents(plan.project, dirs),
                                        created |-> <<>>, failed |-> FALSE],
                                       plan.files, stop)} :
                \E undone \in {_rollback_created_project(w.fs, w.dirs, w.created,
                                                         plan.project)} :
                \E repo \in {_ensure_git_repo(git[Caller])} :
                \E head_state \in {_read_head_state(repo)} :
                \E relative \in {RelativeTo(plan.project, ProjectRoot)} :
                \E committed \in {_commit_markdown_changes(
                                      repo, {RelativeTo(w.created[i], ProjectRoot) :
                                                i \in DOMAIN w.created},
                                      "create_project", relative)} :
                    IF w.failed
                    THEN /\ outcome = "ok"
                         /\ fs' = undone.fs
                         /\ dirs' = undone.dirs
                         /\ UNCHANGED <<git, journal>>
                         /\ call' = ProjectCall(payload, "UNHANDLED", TRUE,
                                                plan.project, planned)
                    ELSE IF outcome = "repo_fails"
                    THEN /\ stop = 0
                         /\ fs' = w.fs
                         /\ dirs' = w.dirs
                         /\ UNCHANGED <<git, journal>>
                         /\ call' = ProjectCall(payload, "GIT_ERROR", TRUE,
                                                plan.project, planned)
                    ELSE IF outcome = "commit_fails"
                    THEN /\ stop = 0
                         /\ fs' = undone.fs
                         /\ dirs' = undone.dirs
                         /\ git' = [git EXCEPT ![Caller] = repo]
                         /\ UNCHANGED journal
                         /\ call' = ProjectCall(payload, "GIT_ERROR", TRUE,
                                                plan.project, planned)
                    ELSE IF outcome = "journal_fails"
                    THEN /\ stop = 0
                         /\ fs' = undone.fs
                         /\ dirs' = undone.dirs
                         /\ git' = [git EXCEPT ![Caller] =
                                       _restore_git_head(committed, head_state)]
                         /\ UNCHANGED journal
                         /\ call' = ProjectCall(payload, "LOG_ERROR", TRUE,
                                                plan.project, planned)
                    ELSE /\ stop = 0
                         /\ fs' = w.fs
                         /\ dirs' = w.dirs
                         /\ git' = [git EXCEPT ![Caller] = committed]
                         /\ journal' = [journal EXCEPT ![Caller] =
                                _append_activity_log(
                                    @, _build_activity_entry(
                                           "create_project", relative,
                                           <<"create project">>, NewSha(repo)))]
                         /\ call' = ProjectCall(payload, "OK", TRUE, plan.project,
                                                planned)

InitProjects ==
    /\ fs = EmptyFs
    /\ dirs = TenantRoots
    /\ links = {}
    /\ git = [t \in Tenants |-> GitAbsent]
    /\ journal = [t \in Tenants |-> <<>>]
    /\ req = IdleReq
    /\ call = ProjectCall(<<>>, "none", FALSE, <<>>, {})

NextProjects == create_project

SpecProjects == InitProjects /\ [][NextProjects]_vars

\* a create_project call that failed after it had passed its checks and made
\* the project directory
ProjectFailed ==
    /\ req'.n = req.n + 1
    /\ call'.started
    /\ call'.code # "OK"

Calendar ==
    << [iso |-> <<"2026-11-02">>, file |-> "2026-11-02.md", year |-> "2026",
        month |-> "11", monthLabel |-> "2026-11", isoYear |-> "2026",
        weekLabel |-> "2026-W45"],
       [iso |-> <<"2026-11-08">>, file |-> "2026-11-08.md", year |-> "2026",
        month |-> "11", monthLabel |-> "2026-11", isoYear |-> "2026",
        weekLabel |-> "2026-W45"],
       [iso |-> <<"2026-12-28">>, file |-> "2026-12-28.md", year |-> "2026",
        month |-> "12", monthLabel |-> "2026-12", isoYear |-> "2026",
        weekLabel |-> "2026-W53"],
       [iso |-> <<"2027-01-01">>, file |-> "2027-01-01.md", year |-> "2027",
        month |-> "01", monthLabel |-> "2027-01", isoYear |-> "2026",
        weekLabel |-> "2026-W53"] >>

\* date.today(): the day the clock reading falls on
DateToday(now) == IF now = 0 THEN 1 ELSE 2

\* date.fromisoformat: the day a text names, 0 for a ValueError
date_fromisoformat(s) ==
    IF \E i \in DOMAIN Calendar : Calendar[i].iso = s
    THEN CHOOSE i \in DOMAIN Calendar : Calendar[i].iso = s
    ELSE 0

DailyRoot(library_root) == library_root \o <<"digest", "daily">>

\* the canonical place of a day's entry
DailyPath(library_root, day) ==
    DailyRoot(library_root) \o <<Calendar[day].year, Calendar[day].month,
                                 Calendar[day].file>>

RECURSIVE PathsInOrder(_)
\* sorted(...) of the paths of one date
PathsInOrder(paths) ==
    IF paths = {} THEN <<>>
    ELSE LET p == CHOOSE q \in paths : TRUE
         IN <<p>> \o PathsInOrder(paths \ {p})

RECURSIVE EntriesFrom(_, _, _)
EntriesFrom(f, library_root, day) ==
    IF day > Len(Calendar) THEN <<>>
    ELSE LET paths == PathsInOrder({p \in DOMAIN f :
                          /\ IsPrefix(DailyRoot(library_root), p)
                          /\ Len(p) > Len(DailyRoot(library_root))
                          /\ Last(p) = Calendar[day].file})
         IN [i \in DOMAIN paths |->
                [date |-> day, path |-> paths[i], content |-> Decode(f[paths[i]])]]
            \o EntriesFrom(f, library_root, day + 1)

\* _collect_daily_entries: the *.md files below digest/daily whose stem is a
\* date, with their text, by ascending date
_collect_daily_entries(f, library_root) == EntriesFrom(f, library_root, 1)

_filter_period_entries(entries, period, target_date) ==
    LET keep(item) ==
            LET d == Calendar[item.date]
                t == Calendar[target_date]
            IN IF period = "week"
               THEN d.isoYear = t.isoYear /\ d.weekLabel = t.weekLabel
               ELSE IF period = "month"
               THEN d.year = t.year /\ d.month = t.month
               ELSE d.year = t.year
    IN SelectSeq(entries, keep)

\* _period_output_path: (path, label)
_period_output_path(library_root, period, target_date) ==
    LET t == Calendar[target_date]
    IN IF period = "week"
       THEN [path |-> library_root \o <<"digest", "weekly", t.isoYear,
                                        t.weekLabel \o ".md">>,
             label |-> t.weekLabel]
       ELSE IF period = "month"
       THEN [path |-> library_root \o <<"digest", "monthly", t.year,
                                        t.monthLabel \o ".md">>,
             label |-> t.monthLabel]
       ELSE [path |-> library_root \o <<"digest", "yearly", t.year \o ".md">>,
             label |-> t.year]

RECURSIVE JoinWith(_, _)
\* sep.join(lines)
JoinWith(lines, sep) ==
    IF lines = <<>> THEN <<>>
    ELSE IF Len(lines) = 1 THEN lines[1]
    ELSE lines[1] \o sep \o JoinWith(Tail(lines), sep)

RECURSIVE EntryLines(_, _)
EntryLines(entries, library_root) ==
    IF entries = <<>> THEN <<>>
    ELSE LET e == Head(entries)
             body == Strip(e.content)
         IN << <<>>,
               <<"### ">> \o Calendar[e.date].iso
                   \o <<" (">> \o AsPosix(RelativeTo(e.path, library_root))
                   \o <<")">>,
               <<>>,
               IF body = <<>> THEN <<"_empty_">> ELSE body >>
            \o EntryLines(Tail(entries), library_root)

\* _render_rollup_content
_render_rollup_content(period, label, entries, library_root) ==
    LET header == IF period = "week" THEN "Weekly"
                  ELSE IF period = "month" THEN "Monthly" ELSE "Yearly"
        lines == << <<"# ", header, " Digest ", label>>, <<>>,
                    <<"## Source Daily Entries">> >>
    IN IF entries = <<>>
       THEN RStripSet(JoinWith(lines \o << <<>>, <<"- (none)">>, <<>> >>, <<LF>>),
                      Whitespace) \o <<LF>>
       ELSE RStripSet(JoinWith(lines \o EntryLines(entries, library_root), <<LF>>),
                      Whitespace) \o <<LF>>

_rollup_state_path(library_root) ==
    library_root \o <<"digest", "_meta", "rollup-state.json">>

\* _read_rollup_state: the object of the file, or the default object when
\* the file is missing (None is the empty text for last_daily_ingest and
\* NoTime for the three stamps; the file is written by this tool only, so
\* it always holds an object of this shape)
_read_rollup_state(f, state_path) ==
    LET default_state == [version |-> 1, last_daily_ingest |-> <<>>,
                          last_weekly_rollup |-> NoTime,
                          last_monthly_rollup |-> NoTime,
                          last_yearly_rollup |-> NoTime]
    IN IF state_path \notin DOMAIN f THEN default_state ELSE f[state_path]

\* _rollup_digest_period up to its commit: the output file is written when
\* its text differs from the rendering, the state file when its object
\* differs; changed_paths lists what was written
_rollup_digest_write(f, ds, library_root, period, target_date, now) ==
    Local(_filter_period_entries(_collect_daily_entries(f, library_root), period,
                                 target_date),
          LAMBDA period_entries :
    Local(_period_output_path(library_root, period, target_date), LAMBDA out :
    Local(_render_rollup_content(period, out.label, period_entries, library_root),
          LAMBDA rendered :
    Local(_rollup_state_path(library_root), LAMBDA state_path :
    Local(IF out.path \in DOMAIN f /\ Decode(f[out.path]) = rendered
          THEN Work(f, MkdirParents(Parent(out.path), ds), <<>>)
          ELSE Work(_atomic_write(f, out.path, rendered),
                    MkdirParents(Parent(out.path), ds),
                    <<RelativeTo(out.path, library_root)>>),
          LAMBDA w :
    Local([_read_rollup_state(w.fs, state_path) EXCEPT
              ![IF period = "week" THEN "last_weekly_rollup"
                ELSE IF period = "month" THEN "last_monthly_rollup"
                ELSE "last_yearly_rollup"] = now,
              !.last_daily_ingest =
                  IF period_entries = <<>> THEN @
                  ELSE Calendar[Last(period_entries).date].iso],
          LAMBDA state :
        [fs |-> IF state_path \in DOMAIN w.fs /\ w.fs[state_path] = state
                THEN w.fs ELSE WriteFile(w.fs, state_path, state),
         dirs |-> MkdirParents(Parent(state_path), w.dirs),
         changed_paths |->
             IF state_path \in DOMAIN w.fs /\ w.fs[state_path] = state
             THEN w.changed
             ELSE Append(w.changed, RelativeTo(state_path, library_root)),
         path |-> RelativeTo(out.path, library_root),
         label |-> out.label,
         daily_count |-> Len(period_entries)]))))))

\* str.lower() of the words a period is given as
Lower(s) ==
    [i \in DOMAIN s |-> IF s[i] = "Month" THEN "month"
                        ELSE IF s[i] = "Week" THEN "week"
                        ELSE IF s[i] = "Year" THEN "year" ELSE s[i]]

\* the checks of rollup_digest_period on its payload
rollup_digest_period_check(payload, now) ==
    IF payload.period.kind = "missing" THEN Err("MISSING_PERIOD")
    ELSE IF payload.period.kind # "str" THEN Err("INVALID_TYPE")
    ELSE Local(Lower(Strip(payload.period.s)), LAMBDA period :
        IF period \notin {<<"week">>, <<"month">>, <<"year">>}
        THEN Err("INVALID_PERIOD")
        ELSE IF payload.target_date.kind = "missing"
        THEN Ok([period |-> period[1], target_date |-> DateToday(now)])
        ELSE IF payload.target_date.kind # "str" THEN Err("INVALID_TYPE")
        ELSE IF date_fromisoformat(payload.target_date.s) = 0
        THEN Err("INVALID_DATE")
        ELSE Ok([period |-> period[1],
                 target_date |-> date_fromisoformat(payload.target_date.s)]))

(***************************************************************************)
(* The digest rollup tool of one tenant, each call followed from its       *)
(* payload to its answer                                                   *)
(***************************************************************************)
DigestRoot == resolve_user_library_root(Caller)

\* the clock and the last rollup call: its payload, what it answered and the
\* paths it wrote
DigestCall(now, payload, code, changed_paths) ==
    [now |-> now, fn |-> "rollup_digest_period", payload |-> payload,
     code |-> code, changed_paths |-> changed_paths]

RollupPayload(period, target_date) == [period |-> period, target_date |-> target_date]

RollupInputs ==
    {RollupPayload(Str(<<"week">>), Missing),
     RollupPayload(Str(<<" ", "Month", LF>>), Missing),
     RollupPayload(Str(<<"year">>), Str(Calendar[4].iso)),
     RollupPayload(Str(<<"week">>), Str(Calendar[3].iso)),
     RollupPayload(Str(<<"day">>), Missing),
     RollupPayload(Missing, Missing),
     RollupPayload(NonStr, Missing),
     RollupPayload(Str(<<"month">>), Str(<<"2026-13-01">>)),
     RollupPayload(Str(<<"year">>), NonStr)}

\* what the commit store and the journal do in a call: both work, the
\* repository cannot be opened, the commit raises, the journal append raises
RollupOutcomes == {"ok", "repo_fails", "commit_fails", "journal_fails"}

rollup_digest_period ==
    \E payload \in RollupInputs, outcome \in RollupOutcomes :
    \E chk \in {rollup_digest_period_check(payload, call.now)} :
        /\ CanCall(Caller)
        /\ req' = [req EXCEPT !.n = @ + 1]
        /\ UNCHANGED links
        /\ IF ~chk.ok
           THEN /\ outcome = "ok"
                /\ call' = DigestCall(call.now, payload, chk.code, <<>>)
                /\ UNCHANGED <<fs, dirs, git, journal>>
           ELSE \E w \in {_rollup_digest_write(fs, dirs, DigestRoot, chk.value.period,
                                               chk.value.target_date, call.now)} :
                \E repo \in {_ensure_git_repo(git[Caller])} :
                    /\ fs' = w.fs
                    /\ dirs' = w.dirs
                    /\ IF w.changed_paths = <<>>
                       THEN /\ outcome = "ok"
                            /\ UNCHANGED <<git, journal>>
                            /\ call' = DigestCall(call.now, payload, "OK", <<>>)
                       ELSE IF outcome = "repo_fails"
                       THEN /\ UNCHANGED <<git, journal>>
                            /\ call' = DigestCall(call.now, payload, "GIT_ERROR",
                                                  w.changed_paths)
                       ELSE IF outcome = "commit_fails"
                       THEN /\ git' = [git EXCEPT ![Caller] = repo]
                            /\ UNCHANGED journal
                            /\ call' = DigestCall(call.now, payload, "GIT_ERROR",
                                                  w.changed_paths)
                       ELSE /\ git' = [git EXCEPT ![Caller] =
                                          _commit_markdown_changes(
                                              repo, w.changed_paths,
                                              "rollup_digest_period", w.path)]
                            /\ IF outcome = "journal_fails"
                               THEN /\ UNCHANGED journal
                                    /\ call' = DigestCall(call.now, payload,
                                                          "INTERNAL_ERROR",
                                                          w.changed_paths)
                               ELSE /\ journal' = [journal EXCEPT ![Caller] =
                                           _append_activity_log(
                                               @, _build_activity_entry(
                                                      "rollup_digest_period", w.path,
                                                      <<"rollup digest ",
                                                        chk.value.period>>,
                                                      NewSha(repo)))]
                                    /\ call' = DigestCall(call.now, payload, "OK",
                                                          w.changed_paths)

\* a daily entry written with create_markdown: the file, its commit and its
\* journal line
DailyEntry(library, day, content) ==
    Recorded(library,
             [fs |-> _atomic_write(library.fs, DailyPath(DigestRoot, day), content),
              dirs |-> MkdirParents(Parent(DailyPath(DigestRoot, day)), library.dirs)],
             "create_markdown", RelativeTo(DailyPath(DigestRoot, day), DigestRoot),
             <<"create markdown">>)

\* a library with the daily entries of three days, the second one blank, and
\* no rollup yet
DailyLibrary ==
    DailyEntry(DailyEntry(DailyEntry(NewLedger, 1, <<"a", LF>>), 2, <<" ", LF>>),
               3, <<"c">>)

\* a library whose week of the first day was rolled up at second 0, before
\* the entry of the second day was written
RolledLibrary ==
    Local(DailyEntry(NewLedger, 1, <<"a", LF>>), LAMBDA one :
    Local(_rollup_digest_write(one.fs, one.dirs, DigestRoot, "week", 1, 0),
          LAMBDA w :
        DailyEntry(Recorded(one, w, "rollup_digest_period", w.path,
                            <<"rollup digest ", "week">>),
                   2, <<"b", LF>>)))

InitDigest ==
    /\ \E library \in {DailyLibrary, RolledLibrary} :
          /\ fs = library.fs
          /\ dirs = library.dirs
          /\ git = [t \in Tenants |-> IF t = Caller THEN library.git ELSE GitAbsent]
          /\ journal = [t \in Tenants |-> IF t = Caller THEN library.journal ELSE <<>>]
    /\ links = {}
    /\ req = IdleReq
    /\ call = DigestCall(0, <<>>, "none", <<>>)

NextDigest ==
    \/ rollup_digest_period
    \/ Tick

SpecDigest == InitDigest /\ [][NextDigest]_vars

\* a rollup call was made
RollupCalled == req'.n = req.n + 1

\* C25: each digest rollup call creates exactly one commit and exactly one
\* journal entry if it changed any file, and no commit and no journal entry
\* if it changed no file
C25_RollupCommitsOnceIfChanged ==
    [][RollupCalled
       => LET commits == Len(git'[Caller].commits) - Len(git[Caller].commits)
              entries == Len(journal'[Caller]) - Len(journal[Caller])
          IN IF fs' # fs THEN commits = 1 /\ entries = 1
             ELSE commits = 0 /\ entries = 0]_vars

(***************************************************************************)
(* Specification SpecSection: the section operations of                    *)
(* src/app/mcp_operations.py applied to every short document against       *)
(* every short target.                                                     *)
(***************************************************************************)
MaxLines == 3

\* the lines documents are made of: empty lines, headings of level 1 and 2,
\* an indented heading and a text line, ended by "\n" or "\r"
LineInputs ==
    {<<LF>>, <<CR>>, <<"#", LF>>, <<"#", CR>>, <<"#", "#", LF>>,
     <<" ", "#", LF>>, <<"x", LF>>}

\* what a document may end with when its last line has no line end
TailInputs == {<<>>, <<"#">>, <<"#", "#">>, <<"x">>}

DocInputs ==
    {Flatten(ls) \o tail :
        ls \in UNION {[1..n -> LineInputs] : n \in 0..MaxLines}, tail \in TailInputs}

TargetInputs == {<<"#">>, <<"#", "#">>, <<" ", "#", LF>>, <<"x">>}

SectionCall(fn, doc, target, content, out) ==
    [fn |-> fn, doc |-> doc, target |-> target, content |-> content, out |-> out]

\* the lines of a document that are the given heading after trimming
HeadingLines(doc, target) ==
    {i \in DOMAIN SplitLines(doc) : Strip(SplitLines(doc)[i]) = Strip(target)}

\* the length of the run of '#' a line starts with after its leading blanks
HeadingRun(line) ==
    LET text == LStripSet(RStripSet(line, {CR, LF}), Whitespace)
    IN Len(text) - Len(LStripSet(text, {"#"}))

\* the text of the section of a heading present in a document: its lines
\* from the first line that is the heading after trimming through the line
\* before the next heading of the same or a shallower level, or the end
SectionText(doc, target) ==
    LET lines == SplitLines(doc)
        first == CHOOSE i \in HeadingLines(doc, target) :
                     \A j \in HeadingLines(doc, target) : i <= j
        stops == {n \in (first + 1)..Len(lines) :
                      HeadingRun(lines[n]) \in 1..HeadingRun(Strip(target))}
        last == IF stops = {} THEN Len(lines)
                ELSE (CHOOSE n \in stops : \A m \in stops : n <= m) - 1
    IN Flatten(SubSeq(lines, first, last))

InitSection ==
    /\ fs = EmptyFs
    /\ dirs = TenantRoots
    /\ links = {}
    /\ git = [t \in Tenants |-> GitAbsent]
    /\ journal = [t \in Tenants |-> <<>>]
    /\ req = IdleReq
    /\ \E doc \in DocInputs, target \in TargetInputs :
           call = SectionCall("pending", doc, target, <<>>, Err("NONE"))

\* one section operation on the document, with the text of the target's own
\* section or with a line of text as its content
SectionOperation ==
    /\ call.fn = "pending"
    /\ \E op_type \in SECTION_OPERATIONS :
       \E op_content \in {<<"x", LF>>} \cup
                         (IF HeadingLines(call.doc, call.target) = {} THEN {}
                          ELSE {SectionText(call.doc, call.target)}) :
           call' = SectionCall(op_type, call.doc, call.target, op_content,
                               _apply_section_operation(call.doc, op_type,
                                                        call.target, op_content))
    /\ UNCHANGED <<fs, dirs, links, git, journal, req>>

NextSection == SectionOperation

SpecSection == InitSection /\ [][NextSection]_vars

\* a replace_section of a heading present in the document with the text of
\* that heading's section
SectionReplacedByItself ==
    /\ call.fn = "replace_section"
    /\ _heading_level(Strip(call.target)) > 0
    /\ HeadingLines(call.doc, call.target) # {}
    /\ call.content = SectionText(call.doc, call.target)

\* C26: for every document and every heading target present in it, replacing
\* the section of the target with exactly the text of that section returns
\* the document unchanged, character for character
C26_SectionRoundTrip ==
    SectionReplacedByItself => call.out = Ok(call.doc)

\* a section between two headings of the same level, with a deeper heading
\* and a "\r\n" line end inside, is replaced by itself
C26_Witness ==
    /\ SectionReplacedByItself
    /\ call.out.ok
    /\ Len(SplitLines(call.doc)) = 3
    /\ Len(SplitLines(call.content)) = 2
    /\ \E i \in 1..(Len(call.content) - 1) :
           call.content[i] = CR /\ call.content[i + 1] = LF

\* the lines a section operation is expected to return: the lines of the
\* document before the splice point, the lines of the content, and the lines
\* of the document after the replaced or skipped range
SplicedLines(doc, op_type, target, op_content) ==
    LET lines == SplitLines(doc)
        bounds == _find_section_bounds(lines, target).value
        cut == IF op_type = "insert_after" THEN bounds[2] ELSE bounds[1]
        resume == IF op_type = "insert_before" THEN bounds[1] ELSE bounds[2]
    IN SubSeq(lines, 1, cut - 1) \o SplitLines(op_content)
           \o SubSeq(lines, resume, Len(lines))

\* C39: insert_before, insert_after and replace_section keep every original
\* line outside the affected position intact: the lines of the result are the
\* original lines before the splice point, then the content as lines of its
\* own, then the remaining original lines, for every document, including one
\* whose section ends at the end of the file without a line end
C39_SpliceKeepsLines ==
    (call.fn \in SECTION_OPERATIONS /\ call.out.ok) =>
        SplitLines(call.out.value)
            = SplicedLines(call.doc, call.fn, call.target, call.content)

(***************************************************************************)
(* The order of the checks of validate_path (SpecPath)                     *)
(***************************************************************************)
\* the pieces of a raw path between its separators, "\\" counted as one
RawSegments(raw) == SplitOn(ReplaceChar(raw, "\\", "/"), "/")

\* the names a raw path walks through below the root
WalkedNames(raw) ==
    LET named == SelectSeq(RawSegments(raw), LAMBDA piece : piece \notin {<<>>, <<".">>})
    IN [i \in DOMAIN named |-> Concat(named[i])]

\* the first of the four checks a raw path fails, "OK" when it fails none
FirstFailure(raw_path, lnk) ==
    IF raw_path.kind # "str" THEN "INVALID_TYPE"
    ELSE IF raw_path.s # <<>> /\ raw_path.s[1] \in {"/", "\\"} THEN "ABSOLUTE_PATH"
    ELSE IF \E i \in DOMAIN RawSegments(raw_path.s) :
                RawSegments(raw_path.s)[i] = <<".", ".">>
    THEN "PATH_TRAVERSAL"
    ELSE IF \E n \in 1..Len(WalkedNames(raw_path.s)) :
                (PathRoot \o SubSeq(WalkedNames(raw_path.s), 1, n)) \in lnk
    THEN "PATH_SYMLINK"
    ELSE "OK"

\* C27: validate_path reports exactly one of INVALID_TYPE (non-string),
\* ABSOLUTE_PATH (absolute), PATH_TRAVERSAL (any '..' segment) and
\* PATH_SYMLINK (any symlinked component), checked in that order; a relative
\* path with a '..' segment is answered PATH_TRAVERSAL whatever the disk
\* holds: with or without symbolic links on its way, whether or not what it
\* names exists
C27_ChecksInOrder ==
    call.fn = "validate_path" =>
        /\ call.out.code = FirstFailure(call.in, links)
        /\ call.out.ok <=> (call.out.code = "OK")
        /\ (FirstFailure(call.in, {}) = "PATH_TRAVERSAL")
               => (call.out = Err("PATH_TRAVERSAL"))

\* a path through a symbolic link and then '..', naming the root, which
\* exists, is answered PATH_TRAVERSAL
C27_Witness ==
    /\ call.fn = "validate_path"
    /\ call.in = Str(<<"l", "/", ".", ".">>)
    /\ PathRoot \o <<"l">> \in links
    /\ PathRoot \in dirs
    /\ call.out = Err("PATH_TRAVERSAL")

(***************************************************************************)
(* The working tree against HEAD (SpecOnboard)                             *)
(***************************************************************************)
\* C28: after any sequence of successful engine mutations, bootstrap
\* included, with no direct filesystem write (every call of SpecOnboard
\* returns its result), the commit store reports no
\* staged and no unstaged change: every tracked path is on disk with the
\* content it has at HEAD (the index is committed whenever it is staged, so
\* it is the tree of HEAD)
C28_TrackedEqualsHead ==
    [][req'.n = req.n + 1
       => \A p \in DOMAIN git'[Caller].index :
              /\ OnboardRoot \o p \in DOMAIN fs'
              /\ WorkingText(fs', journal'[Caller], OnboardRoot, p)
                     = git'[Caller].index[p]]_vars

(***************************************************************************)
(* Specification SpecBootstrap: bootstrap_user_library on libraries that   *)
(* hold files of the tenant already, with and without a base template      *)
(***************************************************************************)
\* files a tenant may hold before the first bootstrap: an AGENT.md and a
\* profile of their own, legacy agents.md files, an interview
OwnFiles ==
    {<<"AGENT.md">>, <<"agents.md">>, <<"me", "profile.md">>,
     <<"life", "finances", "agents.md">>, <<"life", "finances", "interview.md">>}

\* the text of a tenant's own file: a line that ends with "\r\n"
OwnText == <<"mine", CR, LF>>

\* the files of the base template: a profile, an interview and a legacy
\* agents.md
TemplateFiles ==
    {<<"me", "profile.md">>, <<"life", "finances", "interview.md">>,
     <<"life", "fitness", "agents.md">>}

TemplateText == <<"# template", LF>>

\* a library some of the tenant's own files are in, with or without a note
\* a.md made with create_markdown before (one commit, and the journal file
\* made by the append of its one line)
OwnLibrary(own, template, used) ==
    Local([fs |-> [p \in {OnboardRoot \o q : q \in own}
                         \cup {TemplateRoot \o q : q \in template} |->
                     IF IsPrefix(TemplateRoot, p) THEN TemplateText ELSE OwnText],
           dirs |-> UNION ({TenantRoots}
                           \cup {MkdirParents(Parent(OnboardRoot \o q), {}) : q \in own}
                           \cup {MkdirParents(Parent(TemplateRoot \o q), {}) :
                                    q \in template}),
           git |-> GitAbsent, journal |-> <<>>],
          LAMBDA library :
        IF ~used THEN library
        ELSE Recorded(library,
                      [fs |-> WriteFile(_atomic_write(library.fs,
                                                      OnboardRoot \o <<"a.md">>,
                                                      <<"a", LF>>),
                                        _activity_log_path(OnboardRoot), <<>>),
                       dirs |-> library.dirs],
                      "create_markdown", <<"a.md">>, <<"create markdown">>))

InitBootstrap ==
    /\ \E own \in SUBSET OwnFiles, template \in {{}, TemplateFiles}, used \in BOOLEAN :
       \E library \in {OwnLibrary(own, template, used)} :
          /\ fs = library.fs
          /\ dirs = library.dirs
          /\ git = [t \in Tenants |-> IF t = Caller THEN library.git ELSE GitAbsent]
          /\ journal = [t \in Tenants |-> IF t = Caller THEN library.journal ELSE <<>>]
    /\ links = {}
    /\ req = IdleReq
    /\ call = OnboardCall(0, "none", <<>>, "none", NoTopic, "none", NoPhase,
                          NoTopic, {}, NoSha)

NextBootstrap ==
    \/ bootstrap_user_library
    \/ Tick

SpecBootstrap == InitBootstrap /\ [][NextBootstrap]_vars

\* the files of the tenant on disk before a step
TenantFiles == {p \in DOMAIN fs : IsPrefix(OnboardRoot, p)}

\* the files the bootstrapper stamps on every call
StampedFiles == {_schema_version_path(OnboardRoot), _state_path(OnboardRoot)}

BootstrapCalled == req'.n = req.n + 1 /\ call'.fn = "bootstrap_user_library"

\* C29 (as stated): bootstrap never overwrites or removes a file that was
\* there before the call: every such file other than the schema-version and
\* onboarding-state files holds the same bytes afterwards, and a legacy
\* agents.md stays in place
C29_ExistingFilesUntouched ==
    [][BootstrapCalled
       => \A p \in TenantFiles \ StampedFiles :
              /\ p \in DOMAIN fs'
              /\ WorkingText(fs', journal'[Caller], OnboardRoot,
                             RelativeTo(p, OnboardRoot))
                     = WorkingText(fs, journal[Caller], OnboardRoot,
                                   RelativeTo(p, OnboardRoot))]_vars

\* C29 (amended): every file that was there before the call, other than the
\* schema-version file, the onboarding-state file and the journal, holds the
\* same bytes afterwards, and a legacy agents.md stays in place; the journal
\* keeps its lines and gains the entry of the call when the call changed a
\* path
C29_ExistingFilesKeptJournalGrows ==
    [][BootstrapCalled
       => /\ \A p \in TenantFiles \ StampedFiles :
                 p \in DOMAIN fs' /\ fs'[p] = fs[p]
          /\ journal'[Caller] =
                 IF call'.changed = {} THEN journal[Caller]
                 ELSE Append(journal[Caller],
                             _build_activity_entry(
                                 "bootstrap_user_library",
                                 <<".braindrive", "onboarding_state.json">>,
                                 <<"bootstrap user library">>, call'.commitSha))]_vars

\* a bootstrap with a template on a library that holds an AGENT.md, a
\* profile and an interview of the tenant and two legacy agents.md files:
\* all five are as they were and life/finances/AGENT.md is the migrated one
C29_Witness ==
    /\ call.fn = "bootstrap_user_library"
    /\ TemplateRoot \in dirs
    /\ \A q \in OwnFiles : (OnboardRoot \o q) \in DOMAIN fs
                              /\ fs[OnboardRoot \o q] = OwnText
    /\ fs[OnboardRoot \o <<"life", "finances", "AGENT.md">>] = Encode(Decode(OwnText))
    /\ fs[OnboardRoot \o <<"life", "fitness", "agents.md">>] = TemplateText
    /\ journal[Caller][1].operation = "create_markdown"
    /\ Len(journal[Caller]) = 2

(***************************************************************************)
(* A commit that fails in move_path, copy_path or delete_path (SpecFiles)  *)
(***************************************************************************)
\* C30: when the commit step fails during move_path, copy_path or
\* delete_path (the call answers GIT_ERROR), the filesystem is back in its
\* pre-request state: a moved source is where it was, a copied destination
\* does not exist, a deleted path exists again, and a destination removed
\* for overwrite:true has its content again
C30_CommitFailureRestoresDisk ==
    [][(/\ req.pc = "commit"
        /\ req.tool \in {"move_path", "copy_path", "delete_path"}
        /\ req'.pc = "done"
        /\ req'.code = "GIT_ERROR")
       => /\ fs' = req.pre.fs
          /\ dirs' = req.pre.dirs]_vars

(***************************************************************************)
(* Specification SpecRace: two write_markdown requests of one tenant on    *)
(* the same file. The handlers are plain functions run by the framework's  *)
(* thread pool and take no lock, so a request runs from one of its         *)
(* filesystem calls to the next while the other request does the same.     *)
(* call.threads holds the locals of each handler and call.trees the        *)
(* content of the file in each commit of the tenant's store.               *)
(***************************************************************************)
RaceWorkers == {1, 2}

RaceRoot == resolve_user_library_root(Caller)

RaceTarget == RaceRoot \o <<"a.md">>

RaceOps == {Op("append", <<"x">>), Op("append", <<"y">>), Op("prepend", <<"z", LF>>)}

IdleThread ==
    [pc |-> "idle", operation |-> MissingOp, current_content |-> <<>>,
     updated_content |-> <<>>, head_state |-> [ref |-> FALSE, prev |-> NoSha],
     commit_sha |-> NoSha, code |-> "none"]

\* worktree.stage([relative_path]) on the tenant's store
RaceStaged(g, f) ==
    [g EXCEPT !.index = Staged(@, f, journal[Caller], RaceRoot,
                               {RelativeTo(RaceTarget, RaceRoot)})]

\* the content of the file in the commit made from the index of g
RaceTree(g) ==
    IF RelativeTo(RaceTarget, RaceRoot) \in DOMAIN g.index
    THEN <<"file", g.index[RelativeTo(RaceTarget, RaceRoot)]>>
    ELSE <<"absent">>

\* write_markdown, lines 543-598: the checks pass, the file is read and the
\* operation applied to what was read
write_markdown_reads(w) ==
    \E operation \in RaceOps :
        /\ call.threads[w].pc = "idle"
        /\ req.n < MaxCalls
        /\ RaceTarget \in DOMAIN fs
        /\ req' = [req EXCEPT !.n = @ + 1]
        /\ \E current_content \in {Decode(fs[RaceTarget])} :
               call' = [call EXCEPT !.threads[w] =
                           [IdleThread EXCEPT
                              !.pc = "read",
                              !.operation = operation,
                              !.current_content = current_content,
                              !.updated_content =
                                  _apply_write_operation(current_content,
                                                         operation).value]]
        /\ UNCHANGED <<fs, dirs, links, git, journal>>

\* write_markdown, lines 602-608: _ensure_git_repo, _read_head_state and
\* _atomic_write
write_markdown_writes(w) ==
    /\ call.threads[w].pc = "read"
    /\ \E repo \in {_ensure_git_repo(git[Caller])} :
          /\ git' = [git EXCEPT ![Caller] = repo]
          /\ call' = [call EXCEPT !.threads[w].pc = "written",
                                  !.threads[w].head_state = _read_head_state(repo)]
    /\ fs' = _atomic_write(fs, RaceTarget, call.threads[w].updated_content)
    /\ UNCHANGED <<dirs, links, journal, req>>

\* write_markdown, lines 610-622: _commit_markdown_change stages the file as
\* it is on disk at that moment and commits; when it raises, the except
\* branch writes the text the handler read and stages it
write_markdown_commits(w) ==
    \E raises \in BOOLEAN :
        /\ call.threads[w].pc = "written"
        /\ IF raises
           THEN \E f \in {_rollback_markdown_change(
                              fs, [target |-> RaceTarget,
                                   original |-> Text(call.threads[w].current_content)])} :
                    /\ fs' = f
                    /\ git' = [git EXCEPT ![Caller] = RaceStaged(@, f)]
                    /\ call' = [call EXCEPT !.threads[w].pc = "done",
                                            !.threads[w].code = "GIT_ERROR"]
           ELSE \E repo \in {RaceStaged(git[Caller], fs)} :
                    /\ fs' = fs
                    /\ git' = [git EXCEPT ![Caller] =
                                  _commit_markdown_change(
                                      repo, RelativeTo(RaceTarget, RaceRoot),
                                      "write_markdown")]
                    /\ call' = [call EXCEPT !.threads[w].pc = "committed",
                                            !.threads[w].commit_sha = NewSha(repo),
                                            !.trees = Append(@, RaceTree(repo))]
        /\ UNCHANGED <<dirs, links, journal, req>>

\* write_markdown, lines 624-640: the journal entry is appended and the call
\* answers OK; when the append raises, the except branch writes the text the
\* handler read, stages it and restores HEAD
write_markdown_journals(w) ==
    \E raises \in BOOLEAN :
        /\ call.threads[w].pc = "committed"
        /\ IF raises
           THEN \E f \in {_rollback_markdown_change(
                              fs, [target |-> RaceTarget,
                                   original |-> Text(call.threads[w].current_content)])} :
                    /\ fs' = f
                    /\ git' = [git EXCEPT ![Caller] =
                                  _restore_git_head(RaceStaged(@, f),
                                                    call.threads[w].head_state)]
                    /\ journal' = journal
                    /\ call' = [call EXCEPT !.threads[w].pc = "done",
                                            !.threads[w].code = "LOG_ERROR"]
           ELSE /\ fs' = fs
                /\ git' = git
                /\ journal' = [journal EXCEPT ![Caller] =
                                  _append_activity_log(
                                      @, _build_activity_entry(
                                             "write_markdown",
                                             RelativeTo(RaceTarget, RaceRoot),
                                             _format_activity_summary(
                                                 "write_markdown",
                                                 call.threads[w].operation),
                                             call.threads[w].commit_sha))]
                /\ call' = [call EXCEPT !.threads[w].pc = "done",
                                        !.threads[w].code = "OK"]
        /\ UNCHANGED <<dirs, links, req>>

\* the tenant's library after create_markdown made a.md with the content
RaceLibrary(content) ==
    Local(_atomic_write(EmptyFs, RaceTarget, content), LAMBDA f :
    Local([_ensure_git_repo(GitAbsent) EXCEPT
              !.index = Staged(@, f, <<>>, RaceRoot,
                               {RelativeTo(RaceTarget, RaceRoot)})],
          LAMBDA repo :
        [fs |-> f,
         git |-> _commit_markdown_change(repo, RelativeTo(RaceTarget, RaceRoot),
                                         "create_markdown"),
         journal |-> _append_activity_log(
                         <<>>, _build_activity_entry(
                                   "create_markdown",
                                   RelativeTo(RaceTarget, RaceRoot),
                                   <<"create file">>, NewSha(repo))),
         trees |-> <<RaceTree(repo)>>]))

InitRace ==
    /\ \E content \in {<<"o">>, <<"o", LF>>, <<>>} :
       \E library \in {RaceLibrary(content)} :
          /\ fs = library.fs
          /\ git = [t \in Tenants |-> IF t = Caller THEN library.git ELSE GitAbsent]
          /\ journal = [t \in Tenants |-> IF t = Caller THEN library.journal ELSE <<>>]
          /\ call = [threads |-> [w \in RaceWorkers |-> IdleThread],
                     trees |-> library.trees]
    /\ dirs = TenantRoots
    /\ links = {}
    /\ req = IdleReq

NextRace ==
    \E w \in RaceWorkers :
        \/ write_markdown_reads(w)
        \/ write_markdown_writes(w)
        \/ write_markdown_commits(w)
        \/ write_markdown_journals(w)

SpecRace == InitRace /\ [][NextRace]_vars

\* the requests that answered OK
RaceSucceeded ==
    {w \in RaceWorkers : call.threads[w].pc = "done" /\ call.threads[w].code = "OK"}

\* no request is between its read of the file and its answer
RaceQuiescent == \A w \in RaceWorkers : call.threads[w].pc \in {"idle", "done"}

\* C32: when two mutating requests on the same file of the same tenant
\* interleave, the outcome is last-writer-wins among the requests that
\* succeeded: once the requests have answered, the file holds the post-image
\* of a request that succeeded (a request that failed and rolled back has
\* not removed it), and the commit of each request that succeeded holds
\* that request's own post-image.
C32_LastWriterWins ==
    RaceQuiescent =>
        /\ RaceSucceeded # {} =>
               \E w \in RaceSucceeded :
                   FileAt(fs, RaceTarget)
                       = <<"file", Encode(call.threads[w].updated_content)>>
        /\ \A w \in RaceSucceeded :
               call.trees[call.threads[w].commit_sha]
                   = <<"file", Encode(call.threads[w].updated_content)>>

(***************************************************************************)
(* Specification SpecStore: move_path, copy_path and delete_path of one    *)
(* tenant with paths that name the tenant root ('.', ''), the commit       *)
(* store ('.git'), a file and an ancestor of a file. The library holds     *)
(* a.md and d/a.md, each made by create_markdown.                          *)
(***************************************************************************)
P_git == <<".", "g", "i", "t">>

StoreRoot == resolve_user_library_root(Caller)

StoreFromInputs == {Str(P_a_md), Str(P_d_a_md), Str(P_git)}
StoreToInputs == {Str(P_a_md), Str(P_d), Str(P_git)}
StoreDeleteInputs == {Str(P_dot), Str(<<>>), Str(P_git)}

MaxStoreCalls == 2

\* a new request of the tenant can start
CanCallStore == req.pc = "idle" /\ req.n < MaxStoreCalls

\* get_request_library_root: the tenant root is made when it is missing
get_request_library_root ==
    /\ CanCallStore
    /\ StoreRoot \notin dirs
    /\ dirs' = MkdirParents(StoreRoot, dirs)
    /\ UNCHANGED <<fs, links, git, journal, req, call>>

\* what a copy request carried: req.args.target is the source path the call
\* resolved
CopyArgs(source) == [NoArgs EXCEPT !.target = source.value]

move_any_path ==
    \E from_path \in StoreFromInputs, to_path \in StoreToInputs, overwrite \in BOOLEAN :
    \E plan \in {move_path_plan(Caller, [from_path |-> from_path, to_path |-> to_path,
                                         overwrite |-> overwrite])} :
        /\ CanCallStore
        /\ StoreRoot \in dirs
        /\ IF plan.ok THEN Accepted("move_path", Caller, plan.value)
           ELSE Rejected("move_path", Caller, plan.code)

copy_any_path ==
    \E from_path \in StoreFromInputs, to_path \in StoreToInputs, overwrite \in BOOLEAN :
    \E plan \in {copy_path_plan(Caller, [from_path |-> from_path, to_path |-> to_path,
                                         overwrite |-> overwrite])} :
        /\ CanCallStore
        /\ StoreRoot \in dirs
        /\ IF plan.ok
           THEN /\ req' = [AcceptedReq("copy_path", Caller, plan.value) EXCEPT
                              !.args = CopyArgs(validate_path(StoreRoot, from_path,
                                                              links))]
                /\ UNCHANGED <<fs, dirs, links, git, journal, call>>
           ELSE Rejected("copy_path", Caller, plan.code)

delete_any_path ==
    \E path \in StoreDeleteInputs, recursive \in BOOLEAN :
    \E plan \in {delete_path_plan(Caller, [path |-> path, confirm |-> TRUE,
                                           recursive |-> recursive])} :
        /\ CanCallStore
        /\ StoreRoot \in dirs
        /\ IF plan.ok THEN Accepted("delete_path", Caller, plan.value)
           ELSE Rejected("delete_path", Caller, plan.code)

InitStore ==
    /\ fs = (StoreRoot \o <<"a.md">> :> <<"a">>)
            @@ (StoreRoot \o <<"d", "a.md">> :> <<"a", LF>>)
    /\ dirs = TenantRoots \cup {StoreRoot \o <<"d">>}
    /\ links = {}
    /\ git = [t \in Tenants |->
                 IF t = Caller
                 THEN _commit_markdown_change(
                          _commit_markdown_change(_ensure_git_repo(GitAbsent),
                                                  <<"a.md">>, "create_markdown"),
                          <<"d", "a.md">>, "create_markdown")
                 ELSE GitAbsent]
    /\ journal = [t \in Tenants |->
                     IF t = Caller
                     THEN <<_build_activity_entry("create_markdown", <<"a.md">>,
                                                  <<"create file">>, 1),
                            _build_activity_entry("create_markdown", <<"d", "a.md">>,
                                                  <<"create file">>, 2)>>
                     ELSE <<>>]
    /\ req = IdleReq
    /\ call = NoCall

NextStore ==
    \/ get_request_library_root
    \/ move_any_path
    \/ copy_any_path
    \/ delete_any_path
    \/ WriteStep
    \/ WriteFails
    \/ CommitStep
    \/ CommitFails
    \/ JournalStep
    \/ Return

SpecStore == InitStore /\ [][NextStore]_vars

\* the commit ids that are HEAD or an ancestor of HEAD
RECURSIVE AncestorsOf(_, _)
AncestorsOf(g, sha) ==
    IF sha = NoSha \/ sha \notin DOMAIN g.commits THEN {}
    ELSE {sha} \cup AncestorsOf(g, g.commits[sha].parent)

ReachableFromHead(g) == AncestorsOf(g, _resolve_git_head(g))

\* C33: commit history only grows: no step of a tool call removes or alters
\* a commit of the store (the store after the step holds every commit it
\* held before, unchanged), and a commit that was reachable from HEAD before
\* a step that makes no commit of its own is reachable from HEAD after it,
\* whatever path the call names ('.', '', '.git').
C33_HistoryOnlyGrows ==
    [][\A t \in Tenants :
           /\ Len(git[t].commits) <= Len(git'[t].commits)
           /\ SubSeq(git'[t].commits, 1, Len(git[t].commits)) = git[t].commits
           /\ req.pc = "write" => ReachableFromHead(git[t]) \subseteq ReachableFromHead(git'[t])
      ]_vars

\* C34: copy_path never changes or removes its source: for every accepted
\* pair (from_path, to_path) and either value of overwrite, including
\* to_path equal to from_path or an ancestor of from_path, every file under
\* from_path exists with identical content after the call, whether the call
\* succeeds or fails.
C34_CopyKeepsSource ==
    (req.pc = "done" /\ req.tool = "copy_path" /\ req.args.target # <<>>) =>
        \A p \in Under(req.args.target, DOMAIN req.pre.fs) :
            FileAt(fs, p) = FileAt(req.pre.fs, p)

(***************************************************************************)
(* Specification SpecHead: the HEAD bookkeeping of src/app/mcp_git.py.     *)
(* A store in one of its possible shapes; the HEAD state is read, commits  *)
(* are made, and the state read is restored.                               *)
(***************************************************************************)
MaxHeadCommits == 4

HeadOperations == {"write_markdown", "delete_path"}
HeadTargets == {P_a_md, P_d_a_md}

\* a store with n commits on HEAD's branch, made one after the other
RECURSIVE StoreWith(_)
StoreWith(n) ==
    IF n = 0 THEN _ensure_git_repo(GitAbsent)
    ELSE _commit_markdown_change(StoreWith(n - 1), P_a_md, "write_markdown")

\* git pack-refs: the branch ref moves from its own file to packed-refs
PackedRefs(g) == [g EXCEPT !.packed = g.loose, !.loose = NoSha]

\* git checkout --detach <sha>: HEAD holds the commit id itself
DetachedAt(g, sha) == [g EXCEPT !.head = "detached", !.detached = sha]

\* the shapes of a store: no commits yet, a loose branch ref, the ref only in
\* packed-refs, a packed ref shadowed by a newer loose one, a detached HEAD
StoreInputs ==
    {StoreWith(0), StoreWith(1), StoreWith(2),
     PackedRefs(StoreWith(1)), PackedRefs(StoreWith(2)),
     _commit_markdown_change(PackedRefs(StoreWith(1)), P_a_md, "write_markdown"),
     DetachedAt(StoreWith(2), 1), DetachedAt(PackedRefs(StoreWith(2)), 2)}

HeadCall(pc, st, head, before, made) ==
    [pc |-> pc, st |-> st, head |-> head, before |-> before, made |-> made]

InitHead ==
    /\ fs = EmptyFs
    /\ dirs = TenantRoots
    /\ links = {}
    /\ \E g \in StoreInputs :
           /\ git = [t \in Tenants |-> IF t = Caller THEN g ELSE GitAbsent]
           /\ call = HeadCall("idle", _read_head_state(GitAbsent), NoSha, g, 0)
    /\ journal = [t \in Tenants |-> <<>>]
    /\ req = IdleReq

\* head_ref_path, previous_head = _read_head_state(library_root), with the
\* value _resolve_git_head returns at that moment
ReadHeadState ==
    /\ call.pc \in {"idle", "restored"}
    /\ call' = HeadCall("captured", _read_head_state(git[Caller]),
                        _resolve_git_head(git[Caller]), git[Caller], 0)
    /\ UNCHANGED <<fs, dirs, links, git, journal, req>>

\* stage + porcelain.commit of any operation on any path
PorcelainCommit ==
    /\ Len(git[Caller].commits) < MaxHeadCommits
    /\ call.pc \in {"idle", "captured"}
    /\ \E operation \in HeadOperations, relative_path \in HeadTargets :
           git' = [git EXCEPT ![Caller] =
                       _commit_markdown_change(@, relative_path, operation)]
    /\ call' = [call EXCEPT !.made = IF call.pc = "captured" THEN @ + 1 ELSE @]
    /\ UNCHANGED <<fs, dirs, links, journal, req>>

\* _restore_git_head(library_root, head_ref_path, previous_head)
RestoreGitHead ==
    /\ call.pc = "captured"
    /\ git' = [git EXCEPT ![Caller] = _restore_git_head(@, call.st)]
    /\ call' = [call EXCEPT !.pc = "restored"]
    /\ UNCHANGED <<fs, dirs, links, journal, req>>

NextHead ==
    \/ ReadHeadState
    \/ PorcelainCommit
    \/ RestoreGitHead

SpecHead == InitHead /\ [][NextHead]_vars

\* C40: capturing the HEAD state and later restoring it is a round trip: for
\* a store with no commits yet, with a loose branch ref, with the ref only in
\* packed-refs and with a detached HEAD, after the capture, any commits and
\* the restore of the captured state, _resolve_git_head returns the value it
\* returned at capture time
C40_HeadRoundTrip ==
    call.pc = "restored" => _resolve_git_head(git[Caller]) = call.head

\* the state of a store whose ref was only in packed-refs is restored after
\* two commits
C40_Witness ==
    /\ call.pc = "restored"
    /\ call.made = 2
    /\ call.before.head = "ref"
    /\ call.before.loose = NoSha
    /\ call.before.packed # NoSha
    /\ _resolve_git_head(git[Caller]) = call.before.packed

=============================================================================
